---- MODULE Spec2Model ----
(***************************************************************************)
(* Order lifecycle handlers of OrdersPage.tsx over the remote Orders and   *)
(* OrderPayments tables.  Every handler builds its payload from a client   *)
(* side snapshot (the paginated collection `orders`, or `selectedOrder`)   *)
(* and sends it as one row update; the remote store applies the update to  *)
(* whatever the row holds at that moment.                                  *)
(***************************************************************************)
EXTENDS Integers, Sequences, FiniteSets, TLC

\* ------------------------------------------------------------------ bounds
\* number of handler invocations explored in one behaviour
MaxOps == 2
\* number of changes of the search term explored in one behaviour
MaxKeys == 3

\* number of orders in a rendered list
MaxList == 3
MaxShown == 1
MaxPending == 2

\* quiescence window of the search debounce, in ms
DebounceMs == 600

\* ------------------------------------------------------- values and helpers
\* the browsers that hold client state; Editors are the ones that act in
\* the specifications of a single user
Clients == {"c1", "c2"}
Editors == {"c1"}
OrderIds == {"o1", "o2"}

\* enum OrderStatus, in forward order (spec 4.1)
OrderStatus == <<"NEW", "ORDERED", "SHIPPED_FROM_STORE", "ARRIVED_AT_OFFICE",
                 "STORED", "OUT_FOR_DELIVERY", "COMPLETED">>
StatusSet == {OrderStatus[i] : i \in 1..Len(OrderStatus)}
\* a status string that is not an enum literal
BogusStatus == "CANCELLED"

None == <<>>
Some(x) == <<x>>
IsSome(opt) == Len(opt) = 1
Get(opt) == opt[1]

RECURSIVE SumAmounts(_)
SumAmounts(s) == IF s = <<>> THEN 0 ELSE Head(s).amount + SumAmounts(Tail(s))

RECURSIVE SelectSeqBy(_, _)
SelectSeqBy(s, oid) ==
    IF s = <<>> THEN <<>>
    ELSE IF Head(s).order_id = oid
         THEN <<Head(s)>> \o SelectSeqBy(Tail(s), oid)
         ELSE SelectSeqBy(Tail(s), oid)

\* ------------------------------------------------------------------- state
VARIABLES
    dbOrders,       \* remote table Orders: id -> row (snake_case columns)
    dbPayments,     \* remote table OrderPayments: sequence of inserted rows
    orders,         \* per client: in-memory paginated collection, id -> Order
    searchResults,  \* per client: None, or Some(id -> Order)
    selectedOrder,  \* per client: None, or Some(Order)
    toast,          \* per client: kind of the last toast shown
    payment,        \* per client: handlePaymentConfirm between its two awaits
    lastOp,         \* the last handler invocation and what it did
    registered,     \* per order: amounts that payment updates added to amount_paid
    nops            \* handler invocations so far

\* search debounce of OrdersPage (per client)
VARIABLES
    externalSearchTerm, \* the search term handed to the page
    searchTimeoutRef,   \* None, or Some(handle of the timer set last)
    timers,             \* pending timers: [id, term, remaining ms]
    inflight,           \* searchOrders calls awaiting their response: [id, term]
    isSearching,        \* the isSearching flag
    sinceKey,           \* ms since the last change of the term, capped
    typed,              \* the term changes so far: [term, quick]
    issued,             \* the terms searchOrders was called with, in order
    shown,              \* None, or Some of the response written last
    uncaught            \* a rejection left the handler without being caught

searchVars == <<externalSearchTerm, searchTimeoutRef, timers, inflight,
                isSearching, sinceKey, typed, issued, shown, uncaught>>

\* network monitor, dialogs, session and activity log
VARIABLES
    isOnline,           \* useNetwork().isOnline
    pendingCount,       \* useNetwork().pendingCount
    isDeleteModalOpen,  \* per client
    currentUser,        \* per client: None, or Some(user)
    session,            \* per client: the auth session is established
    login,              \* per client: state of LoginPage and of handleLogin
    activityLog         \* remote table GlobalActivityLog

appVars == <<isOnline, pendingCount, isDeleteModalOpen, currentUser, session,
             login, activityLog>>

\* the backend client, the browser's localStorage and the rendered list
VARIABLES
    supabase,           \* the client of supabaseClient.ts is not null
    localStorage,       \* cache key -> stored text (None when absent)
    loaded,             \* what the last read of the cache gave
    listed,             \* the collection filteredOrders is computed from
    filteredOrders,     \* the list on display, in display order
    externalSmartFilter,    \* the active filter pill
    externalStoreFilter,    \* the store selected, or "all"
    authCheck           \* per client: checkAuth between its awaits

envVars == <<supabase, localStorage, loaded, listed, filteredOrders,
             externalSmartFilter, externalStoreFilter, authCheck>>

vars == <<dbOrders, dbPayments, orders, searchResults, selectedOrder, toast,
          payment, lastOp, registered, nops, searchVars, appVars, envVars>>

\* the acting user's name, currentUser?.username
Username(c) == c

\* one history entry; the timestamp is left out
Entry(activity, user) == [activity |-> activity, user |-> user]

\* a freshly created row, as handleSaveOrder inserts it
NewRow(id, status, user) ==
    [id |-> id, status |-> status,
     history |-> <<Entry(<<"Created Order">>, user)>>,
     amount_paid |-> 0, transaction_fee |-> 0, local_delivery_cost |-> 0,
     whatsapp_notification_sent |-> FALSE, is_invoice_printed |-> FALSE]

\* the number a run of digits denotes
RECURSIVE NumericValue(_)
NumericValue(digits) ==
    IF digits = <<>> THEN 0
    ELSE 10 * NumericValue(SubSeq(digits, 1, Len(digits) - 1))
         + digits[Len(digits)]

\* the values a numeric field of an Order object can hold at run time
JsNumber(n) == [type |-> "number", num |-> n]
JsNaN == [type |-> "NaN"]
JsUndefined == [type |-> "undefined"]
JsNull == [type |-> "null"]
JsString(digits, rest) == [type |-> "string", digits |-> digits, rest |-> rest]

\* Number(v): a number is itself, null and the empty string are 0, a string
\* of digits only is the number it spells, anything else is NaN
Number(v) ==
    CASE v.type = "number" -> v
      [] v.type = "null" -> JsNumber(0)
      [] v.type = "string" ->
            IF v.rest # "" THEN JsNaN
            ELSE JsNumber(NumericValue(v.digits))
      [] OTHER -> JsNaN

\* Number(v) taken as it comes, without the `|| 0`
NumberUnguarded(v) == IF Number(v).type = "NaN" THEN -1 ELSE Number(v).num

\* Number(v) || 0: NaN and 0 are falsy
NumberOr0(v) ==
    IF Number(v).type = "NaN" THEN 0
    ELSE IF Number(v).num = 0 THEN 0 ELSE Number(v).num

\* a number goes into the JSON body of a write as it is
JsonNumber(v) == v.num

\* row -> Order object held by the client
FromDB(row) ==
    [id |-> row.id, status |-> row.status, history |-> row.history,
     amountPaid |-> JsNumber(row.amount_paid),
     transactionFee |-> JsNumber(row.transaction_fee),
     localDeliveryCost |-> row.local_delivery_cost,
     whatsappNotificationSent |-> row.whatsapp_notification_sent,
     isInvoicePrinted |-> row.is_invoice_printed]

\* supabase.from('Orders').update(payload).eq('id', id): the columns of the
\* payload replace the row's, the others stay
ApplyUpdate(table, id, payload) ==
    IF id \in DOMAIN table
    THEN [table EXCEPT ![id] =
            [f \in DOMAIN table[id] |->
                IF f \in DOMAIN payload THEN payload[f] ELSE table[id][f]]]
    ELSE table

\* what the page displays: the search result set supersedes the collection
Displayed(c) ==
    IF IsSome(searchResults[c]) THEN Get(searchResults[c]) ELSE orders[c]

\* the ledger rows of one order, and their total
LedgerOf(id) == SelectSeqBy(dbPayments, id)
LedgerTotal(id) == SumAmounts(LedgerOf(id))

\* whether a remote call can resolve without error: never while offline
RemoteOutcomes == IF isOnline THEN BOOLEAN ELSE {FALSE}

\* lastOp records one handler invocation: the handler, the order it was about,
\* what it reported, whether its Orders write was applied, the Orders row
\* before it (pre), the client-side object it built its payload from (read),
\* its input (arg) and the length of the ledger when the handler was called
NoOp == [op |-> "none", client |-> "none", id |-> "none", outcome |-> "none",
         wrote |-> FALSE, pre |-> None, read |-> None, arg |-> "none",
         ledger |-> 0, online |-> TRUE,
         credential |-> "none", auth |-> "none"]

OpAt(name, c, id, outcome, wrote, read, arg, ledger) ==
    [op |-> name, client |-> c, id |-> id, outcome |-> outcome,
     wrote |-> wrote,
     pre |-> IF id \in DOMAIN dbOrders THEN Some(dbOrders[id]) ELSE None,
     read |-> read, arg |-> arg, ledger |-> ledger, online |-> isOnline,
     credential |-> "none", auth |-> "none"]

Op(name, c, id, outcome, wrote, read, arg) ==
    OpAt(name, c, id, outcome, wrote, read, arg, Len(dbPayments))

\* the guard left out: the handler goes on without a client
ClientReadyUnchecked(client) == TRUE

\* if (!supabase) return: the guard at the head of every handler
ClientReady(client) == client

\* a handler called while supabase is null returns at its first line
\* (handleRevertStatus returns false)
ReturnsWithoutClient(c, name, arg) ==
    /\ nops < MaxOps
    /\ lastOp' = [NoOp EXCEPT !.op = name, !.client = c, !.arg = arg,
                              !.outcome = IF name = "revert" THEN "false"
                                          ELSE "returned"]
    /\ nops' = nops + 1
    /\ UNCHANGED <<dbOrders, dbPayments, orders, searchResults, selectedOrder,
                   toast, payment, registered, searchVars, appVars, envVars>>

Idle == [pc |-> "idle"]

\* the signed-in user of a client: the Users row and the auth user agree
UserOf(c) == [id |-> c, username |-> c, email |-> "user@example.com"]

\* LoginPage as mounted: no error, not loading, no handleLogin running
LoginIdle == [pc |-> "idle", error |-> "", loading |-> FALSE,
              isDbSetupOpen |-> FALSE, input |-> "none", log |-> "none",
              event |-> "none", targetEmail |-> "none"]

\* -------------------------------------------------------------------- Init
\* the row of an order that was created and then moved to `status`
InitialRow(id, status) ==
    IF status = "NEW" THEN NewRow(id, "NEW", "c1")
    ELSE [NewRow(id, status, "c1") EXCEPT
            !.history = Append(@, Entry(<<"Status changed to ", status>>, "c1"))]

\* one order exists remotely, created and moved to ORDERED; the client has
\* loaded nothing yet
\* ------------------------------------------------------------- local cache
CacheKeys == {"CurrentUser", "CompanyInfo"}

\* JSON.stringify({ timestamp: Date.now(), data })
CachePayload(data) == "{\"timestamp\":1,\"data\":" \o data \o "}"

\* the state after construction, apart from the environment and from what
\* the page was handed and has open
InitRest ==
    /\ dbOrders = [id \in {"o1"} |-> InitialRow(id, "ORDERED")]
    /\ dbPayments = <<>>
    /\ searchResults = [c \in Clients |-> None]
    /\ toast = [c \in Clients |-> "none"]
    /\ payment = [c \in Clients |-> Idle]
    /\ lastOp = NoOp
    /\ registered = [id \in OrderIds |-> 0]
    /\ nops = 0
    /\ searchTimeoutRef = [c \in Clients |-> None]
    /\ timers = [c \in Clients |-> {}]
    /\ inflight = [c \in Clients |-> {}]
    /\ isSearching = [c \in Clients |-> FALSE]
    /\ sinceKey = [c \in Clients |-> DebounceMs]
    /\ typed = [c \in Clients |-> <<>>]
    /\ issued = [c \in Clients |-> <<>>]
    /\ shown = [c \in Clients |-> None]
    /\ uncaught = [c \in Clients |-> FALSE]
    /\ isDeleteModalOpen = [c \in Clients |-> FALSE]
    /\ login = [c \in Clients |-> LoginIdle]
    /\ activityLog = <<>>

\* nothing is loaded and no order is open
InitPage ==
    /\ InitRest
    /\ currentUser = [c \in Clients |-> Some(UserOf(c))]
    /\ session = [c \in Clients |-> TRUE]
    /\ isOnline = TRUE
    /\ pendingCount = 0
    /\ externalSearchTerm = [c \in Clients |-> ""]
    /\ orders = [c \in Clients |-> <<>>]
    /\ selectedOrder = [c \in Clients |-> None]

\* no checkAuth is running; `closure` is the currentUser its closure holds,
\* `ran` whether one has finished, `signedOut` whether the last auth event
\* handled was a sign-out
NoAuthCheck == [pc |-> "idle", closure |-> None, ran |-> FALSE,
                signedOut |-> FALSE]

\* no cache entry has been read and nothing is rendered yet
NothingLoaded == [key |-> "none", stored |-> None, threw |-> FALSE,
                  value |-> "none"]

Init ==
    /\ InitPage
    /\ supabase = TRUE
    /\ localStorage = [key \in {"CurrentUser", "CompanyInfo"} |->
                          IF key = "CurrentUser"
                          THEN Some(CachePayload("[{}]")) ELSE None]
    /\ loaded = NothingLoaded
    /\ listed = <<>>
    /\ filteredOrders = <<>>
    /\ externalSmartFilter = "all"
    /\ externalStoreFilter = "all"
    /\ authCheck = [c \in Clients |-> NoAuthCheck]

\* ------------------------------------------------- collection maintenance
\* loadMoreOrders: the next row not yet in the collection is appended
LoadMoreOrders(c) ==
    /\ \E id \in DOMAIN dbOrders \ DOMAIN orders[c] :
          orders' = [orders EXCEPT ![c] =
                        [i \in DOMAIN orders[c] \cup {id} |->
                            IF i = id THEN FromDB(dbOrders[id]) ELSE orders[c][i]]]
    /\ UNCHANGED <<dbOrders, dbPayments, searchResults, selectedOrder, toast,
                   payment, lastOp, registered, nops>>
    /\ UNCHANGED <<searchVars, appVars>>
    /\ UNCHANGED envVars

\* a row-level change event patches the collection in place
RealtimeChange(c) ==
    /\ \E id \in DOMAIN orders[c] :
          /\ id \in DOMAIN dbOrders
          /\ orders[c][id] # FromDB(dbOrders[id])
          /\ orders' = [orders EXCEPT ![c][id] = FromDB(dbOrders[id])]
    /\ UNCHANGED <<dbOrders, dbPayments, searchResults, selectedOrder, toast,
                   payment, lastOp, registered, nops>>
    /\ UNCHANGED <<searchVars, appVars>>
    /\ UNCHANGED envVars

\* the debounced search callback: the result set replaces searchResults
SearchCompletes(c) ==
    /\ \E S \in SUBSET DOMAIN dbOrders \ {{}} :
          /\ searchResults[c] # Some([id \in S |-> FromDB(dbOrders[id])])
          /\ searchResults' = [searchResults EXCEPT ![c] =
                                  Some([id \in S |-> FromDB(dbOrders[id])])]
    /\ UNCHANGED <<dbOrders, dbPayments, orders, selectedOrder, toast,
                   payment, lastOp, registered, nops>>
    /\ UNCHANGED <<searchVars, appVars>>
    /\ UNCHANGED envVars

\* the search term is cleared
SearchCleared(c) ==
    /\ IsSome(searchResults[c])
    /\ searchResults' = [searchResults EXCEPT ![c] = None]
    /\ UNCHANGED <<dbOrders, dbPayments, orders, selectedOrder, toast,
                   payment, lastOp, registered, nops>>
    /\ UNCHANGED <<searchVars, appVars>>
    /\ UNCHANGED envVars

\* a card button: setSelectedOrder(order) with the displayed object
SelectOrder(c) ==
    /\ \E id \in DOMAIN Displayed(c) :
          /\ selectedOrder[c] # Some(Displayed(c)[id])
          /\ selectedOrder' = [selectedOrder EXCEPT ![c] = Some(Displayed(c)[id])]
    /\ UNCHANGED <<dbOrders, dbPayments, orders, searchResults, toast,
                   payment, lastOp, registered, nops>>
    /\ UNCHANGED <<searchVars, appVars>>
    /\ UNCHANGED envVars

\* ---------------------------------------------------------------- handlers
\* the order the handler finds in the paginated collection, if any
FindOrder(c, orderId) ==
    IF orderId \in DOMAIN orders[c] THEN Some(orders[c][orderId]) ELSE None

\* order?.history || []
HistoryOf(opt) == IF IsSome(opt) THEN Get(opt).history ELSE <<>>

\* the payloads the status dialog submits: a target status, or other fields
StatusPayloads ==
    {[status |-> s] : s \in StatusSet \cup {BogusStatus}}
        \cup {[localDeliveryCost |-> 1]}

\* a dbPayload that takes a target status only when it is the next one after
\* the status of the order found
UpdatePayloadNextOnly(c, orderId, payload) ==
    LET found == FindOrder(c, orderId)
        label == IF "status" \in DOMAIN payload THEN payload.status ELSE "Updated"
        hist  == Append(HistoryOf(found),
                        Entry(<<"Status changed to ", label>>, Username(c)))
    IN  IF "status" \in DOMAIN payload
        THEN [status |-> IF IsSome(found)
                            /\ \E i \in 1..(Len(OrderStatus) - 1) :
                                  /\ OrderStatus[i] = Get(found).status
                                  /\ OrderStatus[i + 1] = payload.status
                         THEN payload.status
                         ELSE IF IsSome(found) THEN Get(found).status
                         ELSE payload.status,
              history |-> hist]
        ELSE [local_delivery_cost |-> payload.localDeliveryCost, history |-> hist]

\* dbPayload of handleUpdateOrderStatus
UpdatePayload(c, orderId, payload) ==
    LET label == IF "status" \in DOMAIN payload THEN payload.status ELSE "Updated"
        hist  == Append(HistoryOf(FindOrder(c, orderId)),
                        Entry(<<"Status changed to ", label>>, Username(c)))
    IN  IF "status" \in DOMAIN payload
        THEN [status |-> payload.status, history |-> hist]
        ELSE [local_delivery_cost |-> payload.localDeliveryCost, history |-> hist]

handleUpdateOrderStatus(c) ==
    IF ~ClientReady(supabase)
    THEN ReturnsWithoutClient(c, "advance", "")
    ELSE /\ nops < MaxOps
         /\ IsSome(selectedOrder[c])
         /\ \E payload \in StatusPayloads, ok \in RemoteOutcomes :
               LET orderId == Get(selectedOrder[c]).id
                   label == IF "status" \in DOMAIN payload THEN payload.status ELSE "Updated"
               IN  /\ dbOrders' = IF ok
                                  THEN ApplyUpdate(dbOrders, orderId,
                                                   UpdatePayload(c, orderId, payload))
                                  ELSE dbOrders
                   /\ toast' = [toast EXCEPT ![c] = IF ok THEN "success" ELSE "error"]
                   /\ lastOp' = Op("advance", c, orderId,
                                   IF ok THEN "success" ELSE "error", ok,
                                   FindOrder(c, orderId), label)
         /\ nops' = nops + 1
         /\ UNCHANGED <<dbPayments, orders, searchResults, selectedOrder, payment,
                        registered>>
         /\ UNCHANGED <<searchVars, appVars>>
         /\ UNCHANGED envVars

\* the switch with one case pointing two steps back
PrevStatusSkips(status) ==
    CASE status = "ORDERED"            -> "NEW"
      [] status = "SHIPPED_FROM_STORE" -> "ORDERED"
      [] status = "ARRIVED_AT_OFFICE"  -> "SHIPPED_FROM_STORE"
      [] status = "STORED"             -> "SHIPPED_FROM_STORE"
      [] status = "OUT_FOR_DELIVERY"   -> "STORED"
      [] status = "COMPLETED"          -> "OUT_FOR_DELIVERY"
      [] OTHER                         -> ""

\* the switch with a case for NEW that stays at NEW
PrevStatusNewCase(status) ==
    CASE status = "NEW"                -> "NEW"
      [] status = "ORDERED"            -> "NEW"
      [] status = "SHIPPED_FROM_STORE" -> "ORDERED"
      [] status = "ARRIVED_AT_OFFICE"  -> "SHIPPED_FROM_STORE"
      [] status = "STORED"             -> "ARRIVED_AT_OFFICE"
      [] status = "OUT_FOR_DELIVERY"   -> "STORED"
      [] status = "COMPLETED"          -> "OUT_FOR_DELIVERY"
      [] OTHER                         -> ""

\* the predecessor switch of handleRevertStatus; "" is the default branch
PrevStatus(status) ==
    CASE status = "ORDERED"            -> "NEW"
      [] status = "SHIPPED_FROM_STORE" -> "ORDERED"
      [] status = "ARRIVED_AT_OFFICE"  -> "SHIPPED_FROM_STORE"
      [] status = "STORED"             -> "ARRIVED_AT_OFFICE"
      [] status = "OUT_FOR_DELIVERY"   -> "STORED"
      [] status = "COMPLETED"          -> "OUT_FOR_DELIVERY"
      [] OTHER                         -> ""

\* an update that sends the order object back with its totals
RevertPayloadWithTotals(c, order) ==
    [status |-> PrevStatus(order.status),
     amount_paid |-> JsonNumber(order.amountPaid),
     transaction_fee |-> JsonNumber(order.transactionFee),
     history |-> Append(order.history,
                        Entry(<<"Status reverted to ", PrevStatus(order.status)>>,
                              Username(c)))]

\* the update handleRevertStatus sends for the order it found
RevertPayload(c, order) ==
    [status |-> PrevStatus(order.status),
     history |-> Append(order.history,
                        Entry(<<"Status reverted to ", PrevStatus(order.status)>>,
                              Username(c)))]

\* the passwords a dialog can pass on; "none" is the omitted argument
Passwords == {"right", "wrong"}

handleRevertStatusWith(c, password) ==
    IF ~ClientReady(supabase)
    THEN ReturnsWithoutClient(c, "revert", "")
    ELSE /\ nops < MaxOps
         /\ IsSome(selectedOrder[c])
         /\ LET orderId == Get(selectedOrder[c]).id
                found   == FindOrder(c, orderId)
            IN  IF ~IsSome(found) \/ PrevStatus(Get(found).status) = ""
                THEN \* return false, before any remote call and without a toast
                     /\ lastOp' = [Op("revert", c, orderId, "false", FALSE, found, "")
                                   EXCEPT !.credential = password]
                     /\ UNCHANGED <<dbOrders, toast>>
                ELSE \E ok \in RemoteOutcomes :
                     /\ dbOrders' = IF ok
                                    THEN ApplyUpdate(dbOrders, orderId,
                                                     RevertPayload(c, Get(found)))
                                    ELSE dbOrders
                     /\ toast' = [toast EXCEPT ![c] = IF ok THEN "success" ELSE "error"]
                     /\ lastOp' = [Op("revert", c, orderId,
                                      IF ok THEN "true" ELSE "false", ok, found,
                                      PrevStatus(Get(found).status))
                                   EXCEPT !.credential = password]
         /\ nops' = nops + 1
         /\ UNCHANGED <<dbPayments, orders, searchResults, selectedOrder, payment,
                        registered>>
         /\ UNCHANGED <<searchVars, appVars>>
         /\ UNCHANGED envVars

\* onRevert={handleRevertStatus}: called with the order id alone
handleRevertStatus(c) == handleRevertStatusWith(c, "none")

\* what the payment dialog submits
PaymentDetails ==
    {[amountPaid |-> 1, transactionFee |-> 0, localDeliveryCost |-> 0],
     [amountPaid |-> 2, transactionFee |-> 1, localDeliveryCost |-> 1]}

\* the handler going on to the Orders update whatever the insert returned
AfterInsertUnchecked(payError) == "inserted"

\* where handlePaymentConfirm goes after the ledger insert returned
AfterInsert(payError) == IF payError THEN "idle" ELSE "inserted"

\* handlePaymentConfirm up to its first await: the OrderPayments insert
PaymentInsert(c) ==
    IF ~ClientReady(supabase)
    THEN ReturnsWithoutClient(c, "payment", "")
    ELSE /\ nops < MaxOps
         /\ IsSome(selectedOrder[c])
         /\ payment[c].pc = "idle"
         /\ \E details \in PaymentDetails, ok \in RemoteOutcomes :
               LET sel == Get(selectedOrder[c])
               IN  /\ dbPayments' = IF ok
                                    THEN Append(dbPayments,
                                                [order_id |-> sel.id,
                                                 amount |-> details.amountPaid,
                                                 created_by |-> Username(c)])
                                    ELSE dbPayments
                   /\ payment' = [payment EXCEPT ![c] =
                                     IF AfterInsert(~ok) = "inserted"
                                     THEN [pc |-> "inserted", sel |-> sel,
                                           details |-> details,
                                           ledger |-> Len(dbPayments)]
                                     ELSE Idle]
                   /\ toast' = [toast EXCEPT ![c] =
                                   IF AfterInsert(~ok) = "inserted" THEN @ ELSE "error"]
                   /\ lastOp' = Op("paymentInsert", c, sel.id,
                                   IF AfterInsert(~ok) = "inserted" THEN "pending"
                                   ELSE "error",
                                   ok, Some(sel), ToString(details.amountPaid))
         /\ nops' = nops + 1
         /\ UNCHANGED <<dbOrders, orders, searchResults, selectedOrder, registered>>
         /\ UNCHANGED <<searchVars, appVars>>
         /\ UNCHANGED envVars

\* the Orders update of handlePaymentConfirm, from the captured selectedOrder
PaymentPayload(c, sel, details) ==
    [amount_paid |-> NumberOr0(sel.amountPaid) + details.amountPaid,
     local_delivery_cost |-> details.localDeliveryCost,
     transaction_fee |-> NumberOr0(sel.transactionFee) + details.transactionFee,
     history |-> Append(sel.history,
                        Entry(<<"Registered payment: ",
                                ToString(details.amountPaid), " MRU">>,
                              Username(c)))]

\* handlePaymentConfirm after the insert: the Orders update and its outcome
PaymentUpdate(c) ==
    /\ payment[c].pc = "inserted"
    /\ \E ok \in RemoteOutcomes :
          LET sel == payment[c].sel
              details == payment[c].details
          IN  /\ dbOrders' = IF ok
                             THEN ApplyUpdate(dbOrders, sel.id,
                                              PaymentPayload(c, sel, details))
                             ELSE dbOrders
              /\ registered' = IF ok /\ sel.id \in DOMAIN dbOrders
                               THEN [registered EXCEPT ![sel.id] =
                                        @ + details.amountPaid]
                               ELSE registered
              /\ toast' = [toast EXCEPT ![c] = IF ok THEN "success" ELSE "error"]
              /\ lastOp' = OpAt("payment", c, sel.id,
                                IF ok THEN "success" ELSE "error", ok, Some(sel),
                                ToString(details.amountPaid), payment[c].ledger)
    /\ payment' = [payment EXCEPT ![c] = Idle]
    /\ UNCHANGED <<dbPayments, orders, searchResults, selectedOrder, nops>>
    /\ UNCHANGED <<searchVars, appVars>>
    /\ UNCHANGED envVars

\* the page is closed or reloaded while handlePaymentConfirm is between its
\* two awaits: the handler is abandoned and the component state starts again
Reload(c) ==
    /\ payment[c] # Idle
    /\ payment' = [payment EXCEPT ![c] = Idle]
    /\ orders' = [orders EXCEPT ![c] = <<>>]
    /\ searchResults' = [searchResults EXCEPT ![c] = None]
    /\ selectedOrder' = [selectedOrder EXCEPT ![c] = None]
    /\ toast' = [toast EXCEPT ![c] = "none"]
    /\ UNCHANGED <<dbOrders, dbPayments, lastOp, registered, nops>>
    /\ UNCHANGED <<searchVars, appVars>>
    /\ UNCHANGED envVars

NotificationLanguages == {"ar", "en"}

\* the Orders update of handleNotificationConfirm
NotificationPayload(c, sel, lang) ==
    [whatsapp_notification_sent |-> TRUE,
     history |-> Append(sel.history,
                        Entry(<<"WhatsApp Alert sent (", lang, ")">>, Username(c)))]

\* the result of the update is not looked at: success is reported either way
handleNotificationConfirm(c) ==
    IF ~ClientReady(supabase)
    THEN ReturnsWithoutClient(c, "notification", "")
    ELSE /\ nops < MaxOps
         /\ IsSome(selectedOrder[c])
         /\ \E lang \in NotificationLanguages, template \in BOOLEAN, ok \in RemoteOutcomes :
               LET sel == Get(selectedOrder[c])
               IN  IF ~template
                   THEN \* throw new Error("Template not found")
                        /\ ok = isOnline
                        /\ toast' = [toast EXCEPT ![c] = "error"]
                        /\ lastOp' = Op("notification", c, sel.id, "error", FALSE,
                                        Some(sel), lang)
                        /\ UNCHANGED dbOrders
                   ELSE /\ dbOrders' = IF ok
                                       THEN ApplyUpdate(dbOrders, sel.id,
                                                        NotificationPayload(c, sel, lang))
                                       ELSE dbOrders
                        /\ toast' = [toast EXCEPT ![c] = "success"]
                        /\ lastOp' = Op("notification", c, sel.id, "success", ok,
                                        Some(sel), lang)
         /\ nops' = nops + 1
         /\ UNCHANGED <<dbPayments, orders, searchResults, selectedOrder, payment,
                        registered>>
         /\ UNCHANGED <<searchVars, appVars>>
         /\ UNCHANGED envVars

\* prev.map(o => o.id === order.id ? {...o, isInvoicePrinted: true} : o)
MarkPrinted(coll, id) ==
    [i \in DOMAIN coll |->
        IF i = id THEN [coll[i] EXCEPT !.isInvoicePrinted = TRUE] ELSE coll[i]]

\* handleInvoiceSent(order), order being the object of a displayed card
handleInvoiceSent(c) ==
    IF ~ClientReady(supabase)
    THEN ReturnsWithoutClient(c, "invoiceSent", "")
    ELSE /\ nops < MaxOps
         /\ \E id \in DOMAIN Displayed(c), ok \in RemoteOutcomes :
               /\ dbOrders' = IF ok
                              THEN ApplyUpdate(dbOrders, id, [is_invoice_printed |-> TRUE])
                              ELSE dbOrders
               /\ orders' = IF ok THEN [orders EXCEPT ![c] = MarkPrinted(@, id)]
                            ELSE orders
               /\ searchResults' =
                     IF ok /\ IsSome(searchResults[c])
                     THEN [searchResults EXCEPT ![c] = Some(MarkPrinted(Get(@), id))]
                     ELSE searchResults
               /\ toast' = [toast EXCEPT ![c] = IF ok THEN "success" ELSE "error"]
               /\ lastOp' = Op("invoiceSent", c, id, IF ok THEN "success" ELSE "error",
                               ok, Some(Displayed(c)[id]), "")
         /\ nops' = nops + 1
         /\ UNCHANGED <<dbPayments, selectedOrder, payment, registered>>
         /\ UNCHANGED <<searchVars, appVars>>
         /\ UNCHANGED envVars

\* dbPayload of handleSaveOrder for the columns of the model
SavePayload(c, orderData, isEdit) ==
    [status |-> orderData.status,
     amount_paid |-> JsonNumber(orderData.amountPaid),
     history |-> Append(orderData.history,
                        Entry(IF isEdit THEN <<"Updated Order">>
                              ELSE <<"Created Order">>, Username(c)))]

\* the form's data for a new order: no id, no history
NewOrderData(status) ==
    [status |-> status, amountPaid |-> JsNumber(0), history |-> <<>>]

\* handleSaveOrder with orderData.id set: the form was opened on selectedOrder
SaveExisting(c) ==
    IF ~ClientReady(supabase)
    THEN ReturnsWithoutClient(c, "save", "edit")
    ELSE /\ nops < MaxOps
         /\ IsSome(selectedOrder[c])
         /\ \E ok \in RemoteOutcomes :
               LET orderData == Get(selectedOrder[c])
               IN  /\ dbOrders' = IF ok
                                  THEN ApplyUpdate(dbOrders, orderData.id,
                                                   SavePayload(c, orderData, TRUE))
                                  ELSE dbOrders
                   /\ toast' = [toast EXCEPT ![c] = IF ok THEN "success" ELSE "error"]
                   /\ lastOp' = Op("save", c, orderData.id,
                                   IF ok THEN "success" ELSE "error", ok,
                                   Some(orderData), "update")
         /\ nops' = nops + 1
         /\ UNCHANGED <<dbPayments, orders, searchResults, selectedOrder, payment,
                        registered>>
         /\ UNCHANGED <<searchVars, appVars>>
         /\ UNCHANGED envVars

\* handleSaveOrder without orderData.id: insert, the store assigns the id
SaveNew(c) ==
    IF ~ClientReady(supabase)
    THEN ReturnsWithoutClient(c, "save", "new")
    ELSE /\ nops < MaxOps
         /\ OrderIds \ DOMAIN dbOrders # {}
         /\ \E status \in {"NEW", "ORDERED"}, ok \in RemoteOutcomes :
               LET id == CHOOSE i \in OrderIds \ DOMAIN dbOrders : TRUE
                   payload == SavePayload(c, NewOrderData(status), FALSE)
               IN  /\ dbOrders' =
                         IF ok
                         THEN [i \in DOMAIN dbOrders \cup {id} |->
                                 IF i = id
                                 THEN [NewRow(id, status, Username(c)) EXCEPT
                                         !.status = payload.status,
                                         !.amount_paid = payload.amount_paid,
                                         !.history = payload.history]
                                 ELSE dbOrders[i]]
                         ELSE dbOrders
                   /\ toast' = [toast EXCEPT ![c] = IF ok THEN "success" ELSE "error"]
                   /\ lastOp' = Op("save", c, id, IF ok THEN "success" ELSE "error",
                                   ok, None, "insert")
         /\ nops' = nops + 1
         /\ UNCHANGED <<dbPayments, orders, searchResults, selectedOrder, payment,
                        registered>>
         /\ UNCHANGED <<searchVars, appVars>>
         /\ UNCHANGED envVars

Next ==
    \E c \in Editors :
        \/ LoadMoreOrders(c)
        \/ RealtimeChange(c)
        \/ SearchCompletes(c)
        \/ SearchCleared(c)
        \/ SelectOrder(c)
        \/ Reload(c)
        \/ handleUpdateOrderStatus(c)
        \/ handleRevertStatus(c)
        \/ PaymentInsert(c)
        \/ PaymentUpdate(c)
        \/ handleNotificationConfirm(c)
        \/ handleInvoiceSent(c)
        \/ SaveExisting(c)
        \/ SaveNew(c)

Spec == Init /\ [][Next]_vars

\* the status operations and the payment registration, with the collection
\* maintenance around them
NextStatus ==
    \E c \in Editors :
        \/ LoadMoreOrders(c)
        \/ RealtimeChange(c)
        \/ SearchCompletes(c)
        \/ SearchCleared(c)
        \/ SelectOrder(c)
        \/ handleUpdateOrderStatus(c)
        \/ handleRevertStatus(c)
        \/ PaymentInsert(c)
        \/ PaymentUpdate(c)

SpecStatus == Init /\ [][NextStatus]_vars

\* only payment registrations, with the collection maintenance around them
NextPayments ==
    \E c \in Editors :
        \/ LoadMoreOrders(c)
        \/ RealtimeChange(c)
        \/ SearchCompletes(c)
        \/ SearchCleared(c)
        \/ SelectOrder(c)
        \/ Reload(c)
        \/ PaymentInsert(c)
        \/ PaymentUpdate(c)

SpecPayments == Init /\ [][NextPayments]_vars

\* what the amountPaid and transactionFee of an Order object can be when the
\* page gets it: a number, nothing, or text
PriorValues ==
    {JsNumber(0), JsNumber(3), JsUndefined, JsNull, JsNaN,
     JsString(<<>>, ""), JsString(<<1, 2>>, ""), JsString(<<>>, "abc")}

\* the payment dialog is open on an order whose two totals are any of these
InitPaymentInputs ==
    /\ InitRest
    /\ currentUser = [c \in Clients |-> Some(UserOf(c))]
    /\ session = [c \in Clients |-> TRUE]
    /\ isOnline = TRUE
    /\ pendingCount = 0
    /\ externalSearchTerm = [c \in Clients |-> ""]
    /\ \E paid \in PriorValues, fee \in PriorValues :
          LET order == [FromDB(InitialRow("o1", "ORDERED")) EXCEPT
                           !.amountPaid = paid, !.transactionFee = fee]
          IN  /\ orders = [c \in Clients |-> [id \in {"o1"} |-> order]]
              /\ selectedOrder = [c \in Clients |-> Some(order)]
    /\ supabase = TRUE
    /\ localStorage = [key \in CacheKeys |-> None]
    /\ loaded = NothingLoaded
    /\ listed = <<>>
    /\ filteredOrders = <<>>
    /\ externalSmartFilter = "all"
    /\ externalStoreFilter = "all"
    /\ authCheck = [c \in Clients |-> NoAuthCheck]

NextPaymentInputs ==
    \E c \in Editors :
        \/ PaymentInsert(c)
        \/ PaymentUpdate(c)

SpecPaymentInputs == InitPaymentInputs /\ [][NextPaymentInputs]_vars

\* ------------------------------------------------------------ connectivity
\* NetworkMonitor goes offline: useNetwork().isOnline becomes false
GoOffline ==
    /\ isOnline
    /\ isOnline' = FALSE
    /\ UNCHANGED <<pendingCount, isDeleteModalOpen, currentUser, session,
                   login, activityLog>>
    /\ UNCHANGED <<dbOrders, dbPayments, orders, searchResults, selectedOrder,
                   toast, payment, lastOp, registered, nops, searchVars>>
    /\ UNCHANGED envVars

\* NetworkMonitor goes online: the pending writes are drained
GoOnline ==
    /\ ~isOnline
    /\ isOnline' = TRUE
    /\ pendingCount' = 0
    /\ UNCHANGED <<isDeleteModalOpen, currentUser, session, login, activityLog>>
    /\ UNCHANGED <<dbOrders, dbPayments, orders, searchResults, selectedOrder,
                   toast, payment, lastOp, registered, nops, searchVars>>
    /\ UNCHANGED envVars

NextOffline ==
    \/ GoOffline
    \/ GoOnline
    \/ \E c \in Editors :
        \/ LoadMoreOrders(c)
        \/ RealtimeChange(c)
        \/ SearchCompletes(c)
        \/ SelectOrder(c)
        \/ handleUpdateOrderStatus(c)
        \/ handleNotificationConfirm(c)
        \/ SaveExisting(c)

SpecOffline == Init /\ [][NextOffline]_vars

\* a banner that looks at isOnline alone
OfflineBannerOnlineOnly(online, count) ==
    IF online THEN [shown |-> FALSE, message |-> "none", count |-> 0]
    ELSE [shown |-> TRUE, message |-> "offline", count |-> 0]

\* what OfflineBanner renders from useNetwork(): nothing, the offline
\* message, or the syncing message with the count in it
OfflineBanner(online, count) ==
    IF online /\ count = 0
    THEN [shown |-> FALSE, message |-> "none", count |-> 0]
    ELSE IF ~online
         THEN [shown |-> TRUE, message |-> "offline", count |-> 0]
         ELSE [shown |-> TRUE, message |-> "syncing", count |-> count]

\* the page is mounted with any connectivity and any number of pending writes
InitBanner ==
    /\ InitRest
    /\ currentUser = [c \in Clients |-> Some(UserOf(c))]
    /\ session = [c \in Clients |-> TRUE]
    /\ isOnline \in BOOLEAN
    /\ pendingCount \in 0..MaxPending
    /\ orders = [c \in Clients |-> <<>>]
    /\ selectedOrder = [c \in Clients |-> None]
    /\ externalSearchTerm = [c \in Clients |-> ""]
    /\ supabase = TRUE
    /\ localStorage = [key \in CacheKeys |-> None]
    /\ loaded = NothingLoaded
    /\ listed = <<>>
    /\ filteredOrders = <<>>
    /\ externalSmartFilter = "all"
    /\ externalStoreFilter = "all"
    /\ authCheck = [c \in Clients |-> NoAuthCheck]

NextBanner ==
    \/ GoOffline
    \/ GoOnline
    \/ \E c \in Editors :
        \/ LoadMoreOrders(c)
        \/ SelectOrder(c)
        \/ handleUpdateOrderStatus(c)

SpecBanner == InitBanner /\ [][NextBanner]_vars

\* ------------------------------------------------- credential-gated actions
\* the password of the signed-in user's account
PasswordOf(c) == "right"

\* authError of signInWithPassword({email, password})
VerifyFails(c, password, reachable) == ~reachable \/ password # PasswordOf(c)

\* the check of authError left out
DeleteProceedsUnverified(authError) == TRUE

\* if (authError) throw new Error(...)
DeleteProceeds(authError) == ~authError

\* the delete button of a card: the order is selected and the dialog opens
OpenDeleteDialog(c) ==
    /\ \E id \in DOMAIN Displayed(c) :
          /\ ~(isDeleteModalOpen[c] /\ selectedOrder[c] = Some(Displayed(c)[id]))
          /\ selectedOrder' = [selectedOrder EXCEPT ![c] = Some(Displayed(c)[id])]
          /\ isDeleteModalOpen' = [isDeleteModalOpen EXCEPT ![c] = TRUE]
    /\ UNCHANGED <<isOnline, pendingCount, currentUser, session, login,
                   activityLog>>
    /\ UNCHANGED <<dbOrders, dbPayments, orders, searchResults, toast, payment,
                   lastOp, registered, nops, searchVars>>
    /\ UNCHANGED envVars

\* onClose of the password dialog
CloseDeleteDialog(c) ==
    /\ isDeleteModalOpen[c]
    /\ isDeleteModalOpen' = [isDeleteModalOpen EXCEPT ![c] = FALSE]
    /\ UNCHANGED <<isOnline, pendingCount, currentUser, session, login,
                   activityLog>>
    /\ UNCHANGED <<dbOrders, dbPayments, orders, searchResults, selectedOrder,
                   toast, payment, lastOp, registered, nops, searchVars>>
    /\ UNCHANGED envVars

handleDeleteOrder(c) ==
    IF ~ClientReady(supabase)
    THEN ReturnsWithoutClient(c, "delete", "")
    ELSE /\ nops < MaxOps
         /\ isDeleteModalOpen[c]
         /\ IsSome(selectedOrder[c])
         /\ \E password \in Passwords, reachable \in RemoteOutcomes,
               ok \in RemoteOutcomes :
               LET sel == Get(selectedOrder[c])
                   authError == VerifyFails(c, password, reachable)
                   seen(outcome, wrote) ==
                       [Op("delete", c, sel.id, outcome, wrote, Some(sel), "")
                           EXCEPT !.credential = password,
                                  !.auth = IF authError THEN "failed" ELSE "verified"]
               IN  IF ~DeleteProceeds(authError)
                   THEN /\ ok = isOnline
                        /\ toast' = [toast EXCEPT ![c] = "error"]
                        /\ lastOp' = seen("error", FALSE)
                        /\ UNCHANGED <<dbOrders, isDeleteModalOpen, selectedOrder>>
                   ELSE IF ok
                   THEN /\ dbOrders' = [id \in DOMAIN dbOrders \ {sel.id} |->
                                           dbOrders[id]]
                        /\ toast' = [toast EXCEPT ![c] = "success"]
                        /\ isDeleteModalOpen' =
                              [isDeleteModalOpen EXCEPT ![c] = FALSE]
                        /\ selectedOrder' = [selectedOrder EXCEPT ![c] = None]
                        /\ lastOp' = seen("success", sel.id \in DOMAIN dbOrders)
                   ELSE /\ toast' = [toast EXCEPT ![c] = "error"]
                        /\ lastOp' = seen("error", FALSE)
                        /\ UNCHANGED <<dbOrders, isDeleteModalOpen, selectedOrder>>
         /\ nops' = nops + 1
         /\ UNCHANGED <<isOnline, pendingCount, currentUser, session, login,
                        activityLog>>
         /\ UNCHANGED <<dbPayments, orders, searchResults, payment, registered,
                        searchVars>>
         /\ UNCHANGED envVars

\* the details dialog calls onRevert with a password
RevertWithPassword(c) ==
    \E password \in Passwords : handleRevertStatusWith(c, password)

NextProtected ==
    \E c \in Editors :
        \/ LoadMoreOrders(c)
        \/ RealtimeChange(c)
        \/ SelectOrder(c)
        \/ SaveNew(c)
        \/ OpenDeleteDialog(c)
        \/ CloseDeleteDialog(c)
        \/ handleDeleteOrder(c)
        \/ RevertWithPassword(c)

SpecProtected == Init /\ [][NextProtected]_vars

\* ------------------------------------------------------ sign-in and sign-out
searchState == <<externalSearchTerm, searchTimeoutRef, timers, inflight,
                 isSearching, sinceKey, typed, issued, shown>>
pageVars == <<dbOrders, dbPayments, orders, searchResults, selectedOrder,
              toast, payment, registered, searchState, isOnline, pendingCount,
              isDeleteModalOpen>>

\* how an awaited remote call ends: it resolves without an error, it resolves
\* with an error object, or it rejects
CallOutcomes == {"ok", "error", "throws"}

\* what the login form holds on submit: the setup credentials, a known
\* username, the username of a Users row that holds no e-mail address, an
\* unknown username, an e-mail address (each of the last four with the right
\* password), or an e-mail address with a wrong password
LoginInputs == {"setup", "username", "noemail", "nouser", "email", "wrongpass"}

\* /^[^\s@]+@[^\s@]+\.[^\s@]+$/.test(targetEmail)
IsEmailFormat(input) == input \in {"email", "wrongpass"}

\* setError(msg); setLoading(false) on the login page, which is rendered
\* only while nobody is signed in
ShowError(c, l, msg) ==
    IF currentUser[c] = None
    THEN [l EXCEPT !.pc = "idle", !.error = msg, !.loading = FALSE]
    ELSE [l EXCEPT !.pc = "idle"]

\* the catch of handleLogin
Caught(c) == login' = [login EXCEPT ![c] = ShowError(c, @, "thrown")]

\* handleLogin up to its first await
LoginSubmit(c) ==
    /\ nops < MaxOps
    /\ currentUser[c] = None
    /\ login[c].pc = "idle"
    /\ \E input \in LoginInputs :
          login' = [login EXCEPT ![c] =
                       [@ EXCEPT !.pc = "signOut", !.error = "",
                                 !.loading = TRUE, !.input = input,
                                 !.log = "none", !.targetEmail = "none"]]
    /\ nops' = nops + 1
    /\ UNCHANGED <<pageVars, lastOp, uncaught, currentUser, session,
                   activityLog>>
    /\ UNCHANGED envVars

\* await supabase.auth.signOut(), before the try; then the setup check
LoginSignOut(c) ==
    /\ login[c].pc = "signOut"
    /\ \E outcome \in CallOutcomes :
          IF outcome = "throws"
          THEN /\ uncaught' = [uncaught EXCEPT ![c] = TRUE]
               /\ login' = [login EXCEPT ![c].pc = "idle"]
               /\ UNCHANGED session
          ELSE /\ session' = [session EXCEPT ![c] =
                                 IF outcome = "ok" THEN FALSE ELSE @]
               /\ login' = [login EXCEPT ![c] =
                     IF @.input = "setup"
                     THEN [@ EXCEPT !.pc = "idle", !.isDbSetupOpen = TRUE,
                                    !.loading = FALSE]
                     ELSE IF IsEmailFormat(@.input)
                     THEN [@ EXCEPT !.pc = "signIn", !.targetEmail = "input"]
                     ELSE [@ EXCEPT !.pc = "lookup", !.targetEmail = "input"]]
               /\ UNCHANGED uncaught
    /\ UNCHANGED <<pageVars, lastOp, nops, currentUser, activityLog>>
    /\ UNCHANGED envVars

\* the lookup of the e-mail address of a username: targetEmail becomes
\* data.email when the row has one, a row without one leaves targetEmail as
\* entered and goes on, and no row (with or without lookupError) ends in an
\* error message
LoginLookup(c) ==
    /\ login[c].pc = "lookup"
    /\ \E outcome \in CallOutcomes :
          IF outcome = "throws"
          THEN Caught(c)
          ELSE login' = [login EXCEPT ![c] =
                  IF outcome = "ok" /\ @.input = "username"
                  THEN [@ EXCEPT !.pc = "signIn", !.targetEmail = "resolved"]
                  ELSE IF outcome = "ok" /\ @.input = "noemail"
                  THEN [@ EXCEPT !.pc = "signIn"]
                  ELSE ShowError(c, @, "lookup")]
    /\ UNCHANGED <<pageVars, lastOp, nops, uncaught, currentUser, session,
                   activityLog>>
    /\ UNCHANGED envVars

\* signInWithPassword and the handling of signInError
LoginSignIn(c) ==
    /\ login[c].pc = "signIn"
    /\ \E outcome \in CallOutcomes :
          IF outcome = "throws"
          THEN Caught(c) /\ UNCHANGED session
          ELSE IF \/ outcome = "error"
                  \/ login[c].input = "wrongpass"
                  \/ login[c].input = "noemail"
          THEN /\ login' = [login EXCEPT ![c] = ShowError(c, @, "signIn")]
               /\ UNCHANGED session
          ELSE /\ session' = [session EXCEPT ![c] = TRUE]
               /\ login' = [login EXCEPT ![c] =
                               [@ EXCEPT !.pc = "getUser",
                                         !.event = "SIGNED_IN"]]
    /\ UNCHANGED <<pageVars, lastOp, nops, uncaught, currentUser, activityLog>>
    /\ UNCHANGED envVars

\* (await supabase.auth.getUser()).data.user and the read of the profile
LoginGetUser(c) ==
    /\ login[c].pc = "getUser"
    /\ \E outcome \in CallOutcomes, profile \in CallOutcomes :
          IF outcome = "throws" \/ (outcome = "ok" /\ profile = "throws")
          THEN Caught(c)
          ELSE login' = [login EXCEPT ![c].pc =
                            IF outcome = "ok" THEN "log" ELSE "idle"]
    /\ UNCHANGED <<pageVars, lastOp, nops, uncaught, currentUser, session,
                   activityLog>>
    /\ UNCHANGED envVars

\* await supabase.from('GlobalActivityLog').insert(...): its result is not read
LoginLog(c) ==
    /\ login[c].pc = "log"
    /\ \E outcome \in CallOutcomes :
          /\ IF outcome = "throws"
             THEN login' = [login EXCEPT ![c] =
                               [ShowError(c, @, "thrown") EXCEPT !.log = outcome]]
             ELSE login' = [login EXCEPT ![c] =
                               [@ EXCEPT !.pc = "idle", !.log = outcome]]
          /\ activityLog' = IF outcome = "ok"
                            THEN Append(activityLog, <<"Login", "Auth", c>>)
                            ELSE activityLog
    /\ UNCHANGED <<pageVars, lastOp, nops, uncaught, currentUser, session>>
    /\ UNCHANGED envVars

\* onAuthStateChange: SIGNED_IN runs checkAuth; the profile of the session's
\* user becomes currentUser and the main page replaces the login page
checkAuth(c) ==
    /\ login[c].event = "SIGNED_IN"
    /\ IF session[c] /\ currentUser[c] = None
       THEN /\ currentUser' = [currentUser EXCEPT ![c] = Some(UserOf(c))]
            /\ localStorage' = [localStorage EXCEPT !["CurrentUser"] =
                                   Some(CachePayload("[{}]"))]
            /\ login' = [login EXCEPT ![c] =
                            [@ EXCEPT !.error = "", !.loading = FALSE,
                                      !.isDbSetupOpen = FALSE,
                                      !.event = "none"]]
       ELSE /\ login' = [login EXCEPT ![c].event = "none"]
            /\ UNCHANGED <<currentUser, localStorage>>
    /\ UNCHANGED <<pageVars, lastOp, nops, uncaught, session, activityLog>>
    /\ UNCHANGED <<supabase, loaded, listed, filteredOrders,
                   externalSmartFilter, externalStoreFilter, authCheck>>

\* logAction(action, entityType, entityId, details): the write may fail,
\* the caller is not told
LogAction(log, c, action, entityType, written) ==
    IF written THEN Append(log, <<action, entityType, c>>) ELSE log

\* logout: logAction is not awaited; signOut is awaited outside any try
logout(c) ==
    /\ nops < MaxOps
    /\ IsSome(currentUser[c])
    /\ login[c].pc = "idle"
    /\ \E written \in BOOLEAN, outcome \in CallOutcomes :
          /\ activityLog' = IF IsSome(currentUser[c])
                            THEN LogAction(activityLog, c, "Logout", "Auth",
                                           written)
                            ELSE activityLog
          /\ IF outcome = "throws"
             THEN UNCHANGED <<currentUser, session, localStorage>>
             ELSE /\ currentUser' = [currentUser EXCEPT ![c] = None]
                  /\ localStorage' = [localStorage EXCEPT
                                         !["CurrentUser"] = None]
                  /\ session' = [session EXCEPT ![c] =
                                    IF outcome = "ok" THEN FALSE ELSE @]
          /\ lastOp' = [NoOp EXCEPT !.op = "logout", !.client = c,
                                    !.outcome = IF outcome = "throws"
                                                THEN "threw" ELSE "success",
                                    !.wrote = written]
    /\ login' = [login EXCEPT ![c] = LoginIdle]
    /\ nops' = nops + 1
    /\ UNCHANGED <<pageVars, uncaught>>
    /\ UNCHANGED <<supabase, loaded, listed, filteredOrders,
                   externalSmartFilter, externalStoreFilter, authCheck>>

NextAuth ==
    \E c \in Editors :
        \/ logout(c)
        \/ checkAuth(c)
        \/ LoginSubmit(c)
        \/ LoginSignOut(c)
        \/ LoginLookup(c)
        \/ LoginSignIn(c)
        \/ LoginGetUser(c)
        \/ LoginLog(c)

SpecAuth == Init /\ [][NextAuth]_vars

\* an awaited call of handleLogin returns sooner or later, and so does the
\* checkAuth that a SIGNED_IN event started; submitting the form and logging
\* out are up to the user
LoginFairness ==
    \A c \in Editors :
        /\ WF_vars(LoginSignOut(c))
        /\ WF_vars(LoginLookup(c))
        /\ WF_vars(LoginSignIn(c))
        /\ WF_vars(LoginGetUser(c))
        /\ WF_vars(LoginLog(c))
        /\ WF_vars(checkAuth(c))

SpecAuthLive == Init /\ [][NextAuth]_vars /\ LoginFairness

\* ------------------------------------------------- the auth effect of App
\* what the steps of checkAuth and the auth events leave alone
sessionFrame == <<pageVars, lastOp, nops, uncaught, login, activityLog,
                  supabase, loaded, listed, filteredOrders,
                  externalSmartFilter, externalStoreFilter>>

\* how getSession ends: it resolves (with the session, if there is one), it
\* resolves with an error, or with the error of an invalid refresh token
SessionOutcomes == {"ok", "error", "invalidToken"}

\* checkAuth up to the return of getSession
CheckAuthSession(c) ==
    /\ authCheck[c].pc = "session"
    /\ \E outcome \in SessionOutcomes :
          CASE outcome = "invalidToken" ->
                  \* catch: await supabase?.auth.signOut()
                  /\ authCheck' = [authCheck EXCEPT ![c].pc = "signOut"]
                  /\ UNCHANGED <<currentUser, session, localStorage>>
            [] outcome = "error" ->
                  \* catch: logged, nothing else
                  /\ authCheck' = [authCheck EXCEPT ![c].pc = "idle",
                                                    ![c].ran = TRUE]
                  /\ UNCHANGED <<currentUser, session, localStorage>>
            [] outcome = "ok" /\ session[c] ->
                  \* if (!currentUser || currentUser.id !== session.user.id)
                  /\ authCheck' = [authCheck EXCEPT
                                      ![c].pc = IF authCheck[c].closure = None
                                                THEN "profile" ELSE "idle",
                                      ![c].ran = IF authCheck[c].closure = None
                                                 THEN @ ELSE TRUE]
                  /\ UNCHANGED <<currentUser, session, localStorage>>
            [] outcome = "ok" /\ ~session[c] ->
                  \* else: setCurrentUser(null)
                  /\ currentUser' = [currentUser EXCEPT ![c] = None]
                  /\ authCheck' = [authCheck EXCEPT ![c].pc = "idle",
                                                    ![c].ran = TRUE]
                  /\ UNCHANGED <<session, localStorage>>
    /\ UNCHANGED sessionFrame

\* checkAuth after the profile read returned; nothing cancels it, so it goes
\* on whatever was handled while it waited
CheckAuthProfile(c) ==
    /\ authCheck[c].pc = "profile"
    /\ \E profile \in BOOLEAN :
          IF profile
          THEN /\ currentUser' = [currentUser EXCEPT ![c] = Some(UserOf(c))]
               /\ localStorage' = [localStorage EXCEPT !["CurrentUser"] =
                                      Some(CachePayload("[{}]"))]
          ELSE UNCHANGED <<currentUser, localStorage>>
    /\ authCheck' = [authCheck EXCEPT ![c].pc = "idle", ![c].ran = TRUE]
    /\ UNCHANGED session
    /\ UNCHANGED sessionFrame

\* the catch of checkAuth after signOut returned: the cache entry and the
\* user are dropped
CheckAuthSignedOut(c) ==
    /\ authCheck[c].pc = "signOut"
    /\ currentUser' = [currentUser EXCEPT ![c] = None]
    /\ localStorage' = [localStorage EXCEPT !["CurrentUser"] = None]
    /\ session' = [session EXCEPT ![c] = FALSE]
    /\ authCheck' = [authCheck EXCEPT ![c].pc = "idle", ![c].ran = TRUE]
    /\ UNCHANGED sessionFrame

\* the events onAuthStateChange is called with
AuthEvents == {"SIGNED_IN", "SIGNED_OUT", "TOKEN_REFRESH_REVOKED"}

\* the callback handed to onAuthStateChange
AuthStateChange(c) ==
    \E event \in AuthEvents :
        /\ IF event = "SIGNED_IN"
           THEN \* checkAuth(): one call at a time in the model
                /\ authCheck[c].pc = "idle"
                /\ ~session[c] \/ authCheck[c].signedOut
                /\ session' = [session EXCEPT ![c] = TRUE]
                /\ authCheck' = [authCheck EXCEPT ![c].pc = "session",
                                                  ![c].signedOut = FALSE]
                /\ UNCHANGED <<currentUser, localStorage>>
           ELSE /\ ~authCheck[c].signedOut
                /\ currentUser' = [currentUser EXCEPT ![c] = None]
                /\ localStorage' = [localStorage EXCEPT !["CurrentUser"] = None]
                /\ session' = [session EXCEPT ![c] = FALSE]
                /\ authCheck' = [authCheck EXCEPT ![c].signedOut = TRUE]
        /\ UNCHANGED sessionFrame

\* the application mounts: currentUser is what the cache holds, the session
\* may or may not be there still, and the effect has called checkAuth
InitSession ==
    /\ InitRest
    /\ isOnline = TRUE
    /\ pendingCount = 0
    /\ orders = [c \in Clients |-> <<>>]
    /\ selectedOrder = [c \in Clients |-> None]
    /\ externalSearchTerm = [c \in Clients |-> ""]
    /\ \E cached \in BOOLEAN :
          /\ localStorage = [key \in CacheKeys |->
                                IF key = "CurrentUser" /\ cached
                                THEN Some(CachePayload("[{}]")) ELSE None]
          /\ currentUser = [c \in Clients |->
                               IF cached THEN Some(UserOf(c)) ELSE None]
          /\ authCheck = [c \in Clients |->
                             IF c \in Editors
                             THEN [NoAuthCheck EXCEPT
                                     !.pc = "session",
                                     !.closure = IF cached THEN Some(UserOf(c))
                                                 ELSE None]
                             ELSE NoAuthCheck]
    /\ session \in [Clients -> BOOLEAN]
    /\ supabase = TRUE
    /\ loaded = NothingLoaded
    /\ listed = <<>>
    /\ filteredOrders = <<>>
    /\ externalSmartFilter = "all"
    /\ externalStoreFilter = "all"

NextSession ==
    \E c \in Editors :
        \/ CheckAuthSession(c)
        \/ CheckAuthProfile(c)
        \/ CheckAuthSignedOut(c)
        \/ AuthStateChange(c)
        \/ logout(c)

SpecSession == InitSession /\ [][NextSession]_vars

\* ------------------------------------------------ local cache: reads
\* texts a cache key can hold: written by saveToCache, or anything else that
\* a browser's localStorage can contain under the key
StoredTexts ==
    {"", "{bad", "null", "5", "{}", "{\"timestamp\":1}",
     "{\"data\":[{}]}", CachePayload("null"), CachePayload("[{}]")}

\* JSON.parse: valid is FALSE when it throws SyntaxError; otherwise kind is
\* the type of the value, has the own properties among timestamp and data,
\* data the value of the property data
JsonParse(text) ==
    CASE text = "null" ->
            [valid |-> TRUE, kind |-> "null", has |-> {}, data |-> "undefined"]
      [] text = "5" ->
            [valid |-> TRUE, kind |-> "number", has |-> {}, data |-> "undefined"]
      [] text = "{}" ->
            [valid |-> TRUE, kind |-> "object", has |-> {}, data |-> "undefined"]
      [] text = "{\"timestamp\":1}" ->
            [valid |-> TRUE, kind |-> "object", has |-> {"timestamp"},
             data |-> "undefined"]
      [] text = "{\"data\":[{}]}" ->
            [valid |-> TRUE, kind |-> "object", has |-> {"data"},
             data |-> "[{}]"]
      [] text = CachePayload("null") ->
            [valid |-> TRUE, kind |-> "object", has |-> {"timestamp", "data"},
             data |-> "null"]
      [] text = CachePayload("[{}]") ->
            [valid |-> TRUE, kind |-> "object", has |-> {"timestamp", "data"},
             data |-> "[{}]"]
      [] OTHER ->
            [valid |-> FALSE, kind |-> "none", has |-> {}, data |-> "undefined"]

\* the try block of loadFromCache: getItem, JSON.parse, const { data } = ...
LoadTry(stored) ==
    IF stored = None \/ Get(stored) = ""
    THEN [threw |-> FALSE, value |-> "null"]
    ELSE LET parsed == JsonParse(Get(stored))
         IN  IF ~parsed.valid \/ parsed.kind = "null"
             THEN [threw |-> TRUE, value |-> "none"]
             ELSE [threw |-> FALSE, value |-> parsed.data]

\* loadFromCache without its catch
loadFromCacheUncaught(stored) == LoadTry(stored)

\* loadFromCache: catch (e) { return null }
loadFromCache(stored) ==
    IF LoadTry(stored).threw
    THEN [threw |-> FALSE, value |-> "null"]
    ELSE LoadTry(stored)

\* the try block of the login page's read of the cached company info:
\* JSON.parse(cachedCompany), parsed.data && parsed.data[0] && ...
CompanyTry(stored) ==
    IF stored = None \/ Get(stored) = ""
    THEN [threw |-> FALSE, value |-> "undefined"]
    ELSE LET parsed == JsonParse(Get(stored))
         IN  IF ~parsed.valid \/ parsed.kind = "null"
             THEN [threw |-> TRUE, value |-> "none"]
             ELSE [threw |-> FALSE,
                   value |-> IF parsed.data \in {"undefined", "null"}
                             THEN "undefined" ELSE parsed.data]

\* the login page's read: catch (e) { console.error(...) }
ReadCachedCompany(stored) ==
    IF CompanyTry(stored).threw
    THEN [threw |-> FALSE, value |-> "undefined"]
    ELSE CompanyTry(stored)

Loaded(key, stored, result) ==
    [key |-> key, stored |-> stored, threw |-> result.threw,
     value |-> result.value]

\* useState(() => loadFromCache('CurrentUser')) when the application mounts
MountApp(c) ==
    /\ LET result == loadFromCache(localStorage["CurrentUser"])
       IN  /\ loaded' = Loaded("CurrentUser", localStorage["CurrentUser"], result)
           /\ currentUser' = [currentUser EXCEPT ![c] =
                 IF result.value \in {"null", "undefined"} THEN None
                 ELSE Some(UserOf(c))]
    /\ loaded.key # "CurrentUser"
    /\ UNCHANGED <<dbOrders, dbPayments, orders, searchResults, selectedOrder,
                   toast, payment, lastOp, registered, nops, searchVars>>
    /\ UNCHANGED <<isOnline, pendingCount, isDeleteModalOpen, session, login,
                   activityLog>>
    /\ UNCHANGED <<supabase, localStorage, listed, filteredOrders,
                   externalSmartFilter, externalStoreFilter, authCheck>>

\* the effect of the login page on mount, up to fetchData()
MountLoginPage(c) ==
    /\ loaded.key # "CompanyInfo"
    /\ loaded' = Loaded("CompanyInfo", localStorage["CompanyInfo"],
                        ReadCachedCompany(localStorage["CompanyInfo"]))
    /\ UNCHANGED <<dbOrders, dbPayments, orders, searchResults, selectedOrder,
                   toast, payment, lastOp, registered, nops, searchVars,
                   appVars>>
    /\ UNCHANGED <<supabase, localStorage, listed, filteredOrders,
                   externalSmartFilter, externalStoreFilter, authCheck>>

\* saveToCache(key, data), and the login page's setItem after its fetch
saveToCache(key) ==
    /\ localStorage[key] # Some(CachePayload("[{}]"))
    /\ localStorage' = [localStorage EXCEPT ![key] = Some(CachePayload("[{}]"))]
    /\ UNCHANGED <<dbOrders, dbPayments, orders, searchResults, selectedOrder,
                   toast, payment, lastOp, registered, nops, searchVars,
                   appVars>>
    /\ UNCHANGED <<supabase, loaded, listed, filteredOrders,
                   externalSmartFilter, externalStoreFilter, authCheck>>

InitCache ==
    /\ InitPage
    /\ supabase = TRUE
    /\ localStorage \in [CacheKeys -> {None} \cup {Some(t) : t \in StoredTexts}]
    /\ loaded = NothingLoaded
    /\ listed = <<>>
    /\ filteredOrders = <<>>
    /\ externalSmartFilter = "all"
    /\ externalStoreFilter = "all"
    /\ authCheck = [c \in Clients |-> NoAuthCheck]

NextCache ==
    \/ \E c \in Editors : MountApp(c) \/ MountLoginPage(c)
    \/ \E key \in CacheKeys : saveToCache(key)

SpecCache == InitCache /\ [][NextCache]_vars

\* ----------------------------------------------------------- no backend
\* the client could not be created: missing credentials or createClient threw
InitReadOnly ==
    /\ InitPage
    /\ supabase = FALSE
    /\ localStorage = [key \in CacheKeys |-> None]
    /\ loaded = NothingLoaded
    /\ listed = <<>>
    /\ filteredOrders = <<>>
    /\ externalSmartFilter = "all"
    /\ externalStoreFilter = "all"
    /\ authCheck = [c \in Clients |-> NoAuthCheck]

NextReadOnly ==
    \E c \in Editors :
        \/ LoadMoreOrders(c)
        \/ SearchCompletes(c)
        \/ SearchCleared(c)
        \/ SelectOrder(c)
        \/ OpenDeleteDialog(c)
        \/ CloseDeleteDialog(c)
        \/ handleUpdateOrderStatus(c)
        \/ handleRevertStatus(c)
        \/ PaymentInsert(c)
        \/ handleNotificationConfirm(c)
        \/ handleInvoiceSent(c)
        \/ SaveExisting(c)
        \/ SaveNew(c)
        \/ handleDeleteOrder(c)

SpecReadOnly == InitReadOnly /\ [][NextReadOnly]_vars

\* ----------------------------------------------------------- display order
\* local order ids: the prefix and the digits of the number, FCD-2 .. FCD-100
LocalIds == {[prefix |-> "FCD-", digits |-> d] :
                d \in {<<2>>, <<1, 0>>, <<9, 9>>, <<1, 0, 0>>}}

\* the orders a list can hold, as far as filtering and sorting read them
ListedOrders == [localOrderId : LocalIds,
                 status : {"ORDERED", "STORED", "COMPLETED"}]

\* comparison of two runs of digits character by character
RECURSIVE CompareDigits(_, _)
CompareDigits(x, y) ==
    IF x = <<>> /\ y = <<>> THEN 0
    ELSE IF x = <<>> THEN -1
    ELSE IF y = <<>> THEN 1
    ELSE IF Head(x) < Head(y) THEN -1
    ELSE IF Head(x) > Head(y) THEN 1
    ELSE CompareDigits(Tail(x), Tail(y))

\* localeCompare without { numeric: true }: digits compare as characters
LocaleComparePlain(x, y) == CompareDigits(x.digits, y.digits)

\* x.localeCompare(y, undefined, { numeric: true, sensitivity: 'base' }) on
\* ids of one prefix: the runs of digits compare as numbers
LocaleCompare(x, y) ==
    IF NumericValue(x.digits) < NumericValue(y.digits) THEN -1
    ELSE IF NumericValue(x.digits) > NumericValue(y.digits) THEN 1
    ELSE 0

\* the comparator handed to sort
CompareOrders(a, b) ==
    IF a.status = "COMPLETED" /\ b.status # "COMPLETED" THEN 1
    ELSE IF a.status # "COMPLETED" /\ b.status = "COMPLETED" THEN -1
    ELSE LocaleCompare(b.localOrderId, a.localOrderId)

\* Array.prototype.sort: a stable sort by the comparator
RECURSIVE InsertOrder(_, _)
InsertOrder(x, sorted) ==
    IF sorted = <<>> THEN <<x>>
    ELSE IF CompareOrders(x, Head(sorted)) < 0 THEN <<x>> \o sorted
    ELSE <<Head(sorted)>> \o InsertOrder(x, Tail(sorted))

RECURSIVE SortOrders(_)
SortOrders(list) ==
    IF list = <<>> THEN <<>>
    ELSE InsertOrder(list[Len(list)],
                     SortOrders(SubSeq(list, 1, Len(list) - 1)))

\* the smart filters of the page that read the status alone
SmartFilters == {"all", "ready_pickup", "COMPLETED"}

\* new Date().toISOString().split('T')[0], and what expectedArrivalDate can
\* be: nothing, a day before today, a day after; dates of one format compare
\* as strings, character by character
Today == <<0, 2>>
ArrivalDates == {<<>>, <<0, 1>>, <<1, 0>>}

\* the switch over externalSmartFilter; "all" never reaches it
KeepsOrder(o, filter) ==
    CASE filter = "all" -> TRUE
      [] filter = "ready_pickup" -> o.status \in {"STORED", "ARRIVED_AT_OFFICE"}
      [] filter = "late" ->
            /\ o.status \in {"ORDERED", "SHIPPED_FROM_STORE"}
            /\ o.expectedArrivalDate # <<>>
            /\ CompareDigits(o.expectedArrivalDate, Today) < 0
      [] filter = "needs_tracking" ->
            o.status = "ORDERED" /\ o.trackingNumber = ""
      [] filter = "pending_invoice" ->
            o.status = "ORDERED" /\ ~o.isInvoicePrinted
      [] OTHER -> o.status = filter

RECURSIVE FilterOrders(_, _)
FilterOrders(list, filter) ==
    IF list = <<>> THEN <<>>
    ELSE IF KeepsOrder(Head(list), filter)
         THEN <<Head(list)>> \o FilterOrders(Tail(list), filter)
         ELSE FilterOrders(Tail(list), filter)

\* result.filter(o => o.storeId === externalStoreFilter)
RECURSIVE FilterStore(_, _)
FilterStore(list, store) ==
    IF list = <<>> THEN <<>>
    ELSE IF Head(list).storeId = store
         THEN <<Head(list)>> \o FilterStore(Tail(list), store)
         ELSE FilterStore(Tail(list), store)

\* the smart filter applied whatever the search term is
SmartFilteredAlways(list, term, smart) == FilterOrders(list, smart)

\* if (!externalSearchTerm && externalSmartFilter !== 'all') switch ...
SmartFiltered(list, term, smart) ==
    IF term = "" /\ smart # "all" THEN FilterOrders(list, smart) ELSE list

\* the value of the useMemo: smart filter, store filter, then a sorted copy
MemoFilteredOrders(list, term, smart, store) ==
    LET result == SmartFiltered(list, term, smart)
    IN  SortOrders(IF store # "all" THEN FilterStore(result, store) ELSE result)

\* the page is rendered with one of the given filters: filteredOrders is
\* computed anew
RenderWith(smarts, stores) ==
    /\ \E c \in Editors, smart \in smarts, store \in stores :
          /\ externalSmartFilter' = smart
          /\ externalStoreFilter' = store
          /\ filteredOrders' =
                MemoFilteredOrders(listed, externalSearchTerm[c], smart, store)
    /\ <<externalSmartFilter, externalStoreFilter, filteredOrders>>'
          # <<externalSmartFilter, externalStoreFilter, filteredOrders>>
    /\ UNCHANGED <<dbOrders, dbPayments, orders, searchResults, selectedOrder,
                   toast, payment, lastOp, registered, nops, searchVars,
                   appVars>>
    /\ UNCHANGED <<supabase, localStorage, loaded, listed, authCheck>>

\* the useMemo of filteredOrders with the store filter at "all"
RenderList == RenderWith(SmartFilters, {"all"})

\* a list of up to MaxList orders in any order
InitList ==
    /\ InitPage
    /\ supabase = TRUE
    /\ localStorage = [key \in CacheKeys |-> None]
    /\ loaded = NothingLoaded
    /\ listed \in UNION {[1..n -> ListedOrders] : n \in 1..MaxList}
    /\ filteredOrders = <<>>
    /\ externalSmartFilter = "all"
    /\ externalStoreFilter = "all"
    /\ authCheck = [c \in Clients |-> NoAuthCheck]

NextList == RenderList

SpecList == InitList /\ [][NextList]_vars

\* the orders a list can hold, as far as the filters read them
FilterableOrders ==
    [localOrderId : {[prefix |-> "FCD-", digits |-> <<2>>]},
     status : {"ORDERED", "SHIPPED_FROM_STORE", "STORED"},
     expectedArrivalDate : ArrivalDates,
     trackingNumber : {"", "TRK"},
     isInvoicePrinted : BOOLEAN,
     storeId : {"s1", "s2"}]

\* the filter pills of the page, and the values of the store selector
FilterPills ==
    {"all", "ORDERED", "STORED", "pending_notification", "late",
     "ready_pickup", "needs_tracking", "pending_invoice"}
StoreFilters == {"all", "s1"}

\* a list of up to MaxShown orders, with or without a search term; `listed`
\* is the collection the memo reads (the search results while there are any)
InitFilters ==
    /\ InitRest
    /\ currentUser = [c \in Clients |-> Some(UserOf(c))]
    /\ session = [c \in Clients |-> TRUE]
    /\ isOnline = TRUE
    /\ pendingCount = 0
    /\ orders = [c \in Clients |-> <<>>]
    /\ selectedOrder = [c \in Clients |-> None]
    /\ \E term \in {"", "a"} : externalSearchTerm = [c \in Clients |-> term]
    /\ supabase = TRUE
    /\ localStorage = [key \in CacheKeys |-> None]
    /\ loaded = NothingLoaded
    /\ listed \in UNION {[1..n -> FilterableOrders] : n \in 1..MaxShown}
    /\ filteredOrders = <<>>
    /\ externalSmartFilter = "all"
    /\ externalStoreFilter = "all"
    /\ authCheck = [c \in Clients |-> NoAuthCheck]

NextFilters == RenderWith(FilterPills, StoreFilters)

SpecFilters == InitFilters /\ [][NextFilters]_vars

\* the orders a list can hold, as far as the pill counts read them
CountedOrders ==
    [localOrderId : {[prefix |-> "FCD-", digits |-> <<2>>]},
     status : {"ORDERED", "STORED", "ARRIVED_AT_OFFICE"},
     whatsappNotificationSent : BOOLEAN]

\* the pills that show a count
CountPills == {"all", "ORDERED", "STORED", "ARRIVED_AT_OFFICE",
               "pending_notification"}

\* orders.filter(...).length
RECURSIVE CountWhere(_, _)
CountWhere(list, pill) ==
    IF list = <<>> THEN 0
    ELSE (IF \/ pill = "all"
             \/ /\ pill = "pending_notification"
                /\ Head(list).status \in {"STORED", "ARRIVED_AT_OFFICE"}
                /\ ~Head(list).whatsappNotificationSent
             \/ Head(list).status = pill
          THEN 1 ELSE 0) + CountWhere(Tail(list), pill)

\* the count prop of a pill: orders.length, countByStatus(status),
\* countPendingNotification()
PillCount(pill, list) == CountWhere(list, pill)

\* a list of up to MaxList orders, no search term, no store selected
InitPills ==
    /\ InitPage
    /\ supabase = TRUE
    /\ localStorage = [key \in CacheKeys |-> None]
    /\ loaded = NothingLoaded
    /\ listed \in UNION {[1..n -> CountedOrders] : n \in 1..MaxList}
    /\ filteredOrders = <<>>
    /\ externalSmartFilter = "all"
    /\ externalStoreFilter = "all"
    /\ authCheck = [c \in Clients |-> NoAuthCheck]

NextPills == RenderWith(CountPills, {"all"})

SpecPills == InitPills /\ [][NextPills]_vars

\* ------------------------------------------------------------- two editors
\* two browsers run the status handlers on the same remote table
NextEditors ==
    \E c \in Clients :
        \/ LoadMoreOrders(c)
        \/ RealtimeChange(c)
        \/ SelectOrder(c)
        \/ handleUpdateOrderStatus(c)
        \/ handleRevertStatus(c)

SpecEditors == Init /\ [][NextEditors]_vars

\* ---------------------------------------------------------- search debounce
behindVars == <<dbOrders, dbPayments, orders, selectedOrder, toast, payment,
                lastOp, registered, nops>>

\* the terms typed into the search box
Terms == {"", " ", "a", "ab", "abc"}

\* String.prototype.trim on the terms of the model
Trim(term) == IF term = " " THEN "" ELSE term

\* clearTimeout left out: the pending timer keeps running
ClearTimeoutForgotten(pending, ref) == pending

\* clearTimeout reaching only timers set before the one the ref holds
ClearTimeoutOlder(pending, ref) ==
    IF IsSome(ref) THEN {t \in pending : t.id >= Get(ref)} ELSE pending

\* if (searchTimeoutRef.current) clearTimeout(searchTimeoutRef.current)
ClearTimeout(pending, ref) ==
    IF IsSome(ref) THEN {t \in pending : t.id # Get(ref)} ELSE pending

\* what searchOrders(term) resolves to: the rows matching the term
SearchOrders(term) == [id \in DOMAIN dbOrders |-> FromDB(dbOrders[id])]

\* the effect on externalSearchTerm: the term changes to `term`
TermChanges(c) ==
    /\ Len(typed[c]) < MaxKeys
    /\ \E term \in Terms \ {externalSearchTerm[c]} :
          LET id == Len(typed[c]) + 1
              cleared == ClearTimeout(timers[c], searchTimeoutRef[c])
          IN  /\ externalSearchTerm' = [externalSearchTerm EXCEPT ![c] = term]
              /\ typed' = [typed EXCEPT ![c] =
                              Append(@, [term |-> term,
                                         quick |-> sinceKey[c] < DebounceMs])]
              /\ sinceKey' = [sinceKey EXCEPT ![c] = 0]
              /\ IF Trim(term) # ""
                 THEN /\ timers' = [timers EXCEPT ![c] =
                                       cleared \cup {[id |-> id, term |-> term,
                                                      remaining |-> DebounceMs]}]
                      /\ searchTimeoutRef' =
                            [searchTimeoutRef EXCEPT ![c] = Some(id)]
                      /\ isSearching' = [isSearching EXCEPT ![c] = TRUE]
                      /\ UNCHANGED searchResults
                 ELSE /\ timers' = [timers EXCEPT ![c] = cleared]
                      /\ searchResults' = [searchResults EXCEPT ![c] = None]
                      /\ isSearching' = [isSearching EXCEPT ![c] = FALSE]
                      /\ UNCHANGED searchTimeoutRef
    /\ UNCHANGED <<inflight, issued, shown, uncaught>>
    /\ UNCHANGED <<behindVars, appVars>>
    /\ UNCHANGED envVars

\* time passes; a timer that is due runs before any more time passes
Tick ==
    /\ \E d \in {200, 400, 600} :
          /\ \A c \in Clients : \A t \in timers[c] : t.remaining >= d
          /\ timers' = [c \in Clients |->
                          {[t EXCEPT !.remaining = @ - d] : t \in timers[c]}]
          /\ sinceKey' = [c \in Clients |->
                            IF sinceKey[c] + d > DebounceMs THEN DebounceMs
                            ELSE sinceKey[c] + d]
    /\ \E c \in Clients : timers[c] # {} \/ sinceKey[c] < DebounceMs
    /\ UNCHANGED <<externalSearchTerm, searchTimeoutRef, inflight, isSearching,
                   typed, issued, shown, uncaught, searchResults>>
    /\ UNCHANGED <<behindVars, appVars>>
    /\ UNCHANGED envVars

\* the timer callback up to its await: searchOrders(term) is called
TimerFires(c) ==
    /\ \E t \in timers[c] :
          /\ t.remaining = 0
          /\ timers' = [timers EXCEPT ![c] = @ \ {t}]
          /\ inflight' = [inflight EXCEPT ![c] =
                             @ \cup {[id |-> t.id, term |-> t.term]}]
          /\ issued' = [issued EXCEPT ![c] =
                           Append(@, [id |-> t.id, term |-> t.term])]
    /\ UNCHANGED <<externalSearchTerm, searchTimeoutRef, isSearching, sinceKey,
                   typed, shown, uncaught, searchResults>>
    /\ UNCHANGED <<behindVars, appVars>>
    /\ UNCHANGED envVars

\* the timer callback after its await: the response of one call arrives
SearchResponse(c) ==
    /\ \E q \in inflight[c], resolved \in BOOLEAN :
          /\ inflight' = [inflight EXCEPT ![c] = @ \ {q}]
          /\ IF resolved
             THEN /\ searchResults' =
                        [searchResults EXCEPT ![c] = Some(SearchOrders(q.term))]
                  /\ isSearching' = [isSearching EXCEPT ![c] = FALSE]
                  /\ shown' = [shown EXCEPT ![c] =
                                  Some([id |-> q.id, term |-> q.term,
                                        newest |-> issued[c][Len(issued[c])].id])]
                  /\ UNCHANGED uncaught
             ELSE \* the await throws inside the timer callback: no catch
                  /\ uncaught' = [uncaught EXCEPT ![c] = TRUE]
                  /\ UNCHANGED <<searchResults, isSearching, shown>>
    /\ UNCHANGED <<externalSearchTerm, searchTimeoutRef, timers, sinceKey,
                   typed, issued>>
    /\ UNCHANGED <<behindVars, appVars>>
    /\ UNCHANGED envVars

NextSearch ==
    \/ Tick
    \/ \E c \in Editors :
        \/ TermChanges(c)
        \/ TimerFires(c)
        \/ SearchResponse(c)

SpecSearch == Init /\ [][NextSearch]_vars

\* ------------------------------------------------------------- properties
Succeeded == lastOp.outcome \in {"success", "true"}

\* position of a status in the forward chain, 0 when it is no enum literal
RECURSIVE IndexFrom(_, _)
IndexFrom(status, i) ==
    IF i > Len(OrderStatus) THEN 0
    ELSE IF OrderStatus[i] = status THEN i ELSE IndexFrom(status, i + 1)
StatusIndex(status) == IndexFrom(status, 1)

\* C1: the stored history of an order never gets shorter, whatever handler
\* writes the row and whatever snapshot the handler started from.
HistoryNeverShrinks ==
    [][\A id \in DOMAIN dbOrders \cap DOMAIN dbOrders' :
          Len(dbOrders'[id].history) >= Len(dbOrders[id].history)]_vars

\* C2: every mutating operation that reports success leaves the stored
\* history exactly one entry longer than it was before the operation
\* (a created order starts with one entry).
EveryOperationAppendsOne ==
    (/\ lastOp.op \in {"save", "advance", "revert", "payment", "notification",
                       "invoiceSent"}
     /\ Succeeded
     /\ lastOp.id \in DOMAIN dbOrders)
    => Len(dbOrders[lastOp.id].history)
         = (IF IsSome(lastOp.pre) THEN Len(Get(lastOp.pre).history) ELSE 0) + 1

\* C3: once every payment registration of an order has run to its end and
\* both of its writes were applied, amount_paid equals the ledger total.
AmountPaidEqualsLedger ==
    \A id \in DOMAIN dbOrders :
        (/\ \A c \in Clients : payment[c].pc = "idle"
         /\ LedgerTotal(id) = registered[id])
        => dbOrders[id].amount_paid = LedgerTotal(id)

\* C4: a revert that succeeds on an order read with status S stores the
\* status one place before S in the chain NEW .. COMPLETED, and the stored
\* history is the history it read plus the entry "Status reverted to <prev>".
RevertMapsToPredecessor ==
    (lastOp.op = "revert" /\ lastOp.outcome = "true" /\ IsSome(lastOp.pre))
    => LET read == Get(lastOp.read)
           row  == dbOrders[lastOp.id]
           i    == StatusIndex(read.status)
       IN  /\ i \in 2..Len(OrderStatus)
           /\ row.status = OrderStatus[i - 1]
           /\ row.history =
                Append(read.history,
                       Entry(<<"Status reverted to ", OrderStatus[i - 1]>>,
                             Username(lastOp.client)))

RevertFromCompletedDone ==
    /\ lastOp.op = "revert" /\ lastOp.outcome = "true"
    /\ Get(lastOp.read).status = "COMPLETED"
    /\ dbOrders[lastOp.id].status = "OUT_FOR_DELIVERY"

\* C5: a successful revert of a row that an advance left in the non-NEW status
\* S stores the predecessor of S.
RevertAfterAdvance ==
    (/\ lastOp.op = "revert" /\ lastOp.outcome = "true" /\ IsSome(lastOp.pre)
     /\ StatusIndex(Get(lastOp.pre).status) >= 2
     /\ Get(lastOp.pre).history[Len(Get(lastOp.pre).history)].activity
          = <<"Status changed to ", Get(lastOp.pre).status>>)
    => dbOrders[lastOp.id].status
         = OrderStatus[StatusIndex(Get(lastOp.pre).status) - 1]

\* C6: a revert of an order read with status NEW returns false, sends no
\* update and leaves the stored row, status and history included, as it was.
RevertOnNewFails ==
    (/\ lastOp.op = "revert" /\ IsSome(lastOp.read)
     /\ Get(lastOp.read).status = "NEW")
    => /\ lastOp.outcome = "false"
       /\ ~lastOp.wrote
       /\ IsSome(lastOp.pre) => dbOrders[lastOp.id] = Get(lastOp.pre)

RevertOnNewTried ==
    /\ lastOp.op = "revert" /\ IsSome(lastOp.read)
    /\ Get(lastOp.read).status = "NEW"
    /\ lastOp.outcome = "false"
    /\ dbOrders[lastOp.id].status = "NEW"

\* C7: an advance whose target status is no enum literal is rejected: no
\* update is applied and the stored row is as it was.
AdvanceRejectsUnknownStatus ==
    (lastOp.op = "advance" /\ lastOp.arg = BogusStatus /\ IsSome(lastOp.pre))
    => /\ ~lastOp.wrote
       /\ lastOp.outcome = "error"
       /\ dbOrders[lastOp.id] = Get(lastOp.pre)

\* C8: the stored amount_paid of an order never goes down.
AmountPaidNeverDecreases ==
    [][\A id \in DOMAIN dbOrders \cap DOMAIN dbOrders' :
          dbOrders'[id].amount_paid >= dbOrders[id].amount_paid]_vars

\* C9: the Orders update of a payment registration is sent only after its
\* ledger insert was applied, so the ledger total of every order is at least
\* the sum of what registrations added to its amount_paid.
LedgerNeverBehind ==
    /\ \A id \in OrderIds : LedgerTotal(id) >= registered[id]
    /\ \A c \in Clients :
          payment[c].pc = "inserted"
          => /\ Len(dbPayments) > payment[c].ledger
             /\ \E i \in 1..Len(dbPayments) :
                   /\ dbPayments[i].order_id = payment[c].sel.id
                   /\ dbPayments[i].amount = payment[c].details.amountPaid
    /\ lastOp.op = "payment"
          => \E i \in 1..Len(dbPayments) :
                /\ dbPayments[i].order_id = lastOp.id
                /\ ToString(dbPayments[i].amount) = lastOp.arg

LedgerAheadAfterFailure ==
    /\ lastOp.op = "payment" /\ lastOp.outcome = "error"
    /\ LedgerTotal(lastOp.id) > registered[lastOp.id]

\* C10: an advance or a payment registration that ends in its error path has
\* changed neither the Orders row nor the ledger.
FailedOperationChangesNothing ==
    (/\ lastOp.op \in {"advance", "paymentInsert", "payment"}
     /\ lastOp.outcome = "error"
     /\ IsSome(lastOp.pre))
    => /\ dbOrders[lastOp.id] = Get(lastOp.pre)
       /\ Len(dbPayments) = lastOp.ledger

\* the terms of the keystrokes typed so far
TypedTerms(c) == [i \in 1..Len(typed[c]) |-> typed[c][i].term]

\* "a", "ab", "abc" typed, each less than the debounce delay after the last
TypedAbcQuickly(c) ==
    /\ TypedTerms(c) = <<"a", "ab", "abc">>
    /\ typed[c][2].quick
    /\ typed[c][3].quick

\* C11: after "a", "ab", "abc" typed less than 600 ms apart there is exactly
\* one search, pending or issued, and it is the search for "abc".
DebounceSingleQuery ==
    \A c \in Clients :
        TypedAbcQuickly(c) =>
            /\ Cardinality(timers[c]) + Len(issued[c]) = 1
            /\ \A t \in timers[c] : t.term = "abc"
            /\ \A i \in 1..Len(issued[c]) : issued[c][i].term = "abc"

\* C11 witness: the three quick keystrokes were typed, the delay has passed
\* and the one query, for "abc", has been issued.
DebounceIssuedAbc ==
    \E c \in Clients :
        /\ TypedAbcQuickly(c)
        /\ timers[c] = {}
        /\ issued[c] = <<[id |-> 3, term |-> "abc"]>>

\* C12: the search results on display come from the most recently issued
\* search: a response of an older search never replaces them.
LatestSearchWins ==
    \A c \in Clients :
        IsSome(shown[c]) => Get(shown[c]).id = Get(shown[c]).newest

\* C13: while the search term is empty, searchResults is null (paginated
\* mode), also after the response of an earlier search has arrived.
EmptyTermShowsPaginated ==
    \A c \in Clients :
        externalSearchTerm[c] = "" => searchResults[c] = None

\* C14: an advance made while offline succeeds locally and is queued
\* (pendingCount is 1 while still offline); once back online the queue is
\* drained, pendingCount is 0 and the stored status is the advanced one.
OfflineAdvanceSyncs ==
    (/\ lastOp.op = "advance"
     /\ lastOp.arg = "ORDERED"
     /\ ~lastOp.online)
    => /\ lastOp.outcome = "success"
       /\ IF isOnline
          THEN pendingCount = 0 /\ dbOrders[lastOp.id].status = "ORDERED"
          ELSE pendingCount = 1

\* a write of an advance or a save failed for want of connectivity, and the
\* client is still offline
ConnectivityFailure ==
    /\ lastOp.op \in {"advance", "save"}
    /\ ~lastOp.online
    /\ ~lastOp.wrote
    /\ ~isOnline

\* C15: a write that fails for want of connectivity is queued and not shown
\* as an error; and no remote write that failed is lost: it is queued or it
\* is reported to the user.
FailedWriteQueuedOrReported ==
    /\ ConnectivityFailure =>
          pendingCount > 0 /\ toast[lastOp.client] # "error"
    /\ (lastOp.op \in {"advance", "save", "notification"} /\ ~lastOp.wrote)
          => pendingCount > 0 \/ lastOp.outcome = "error"

\* C16: a row leaves Orders only in a delete whose password was verified;
\* a delete whose verification failed removes nothing, leaves the dialog
\* open and leaves selectedOrder as it was.
DeleteOnlyAfterVerification ==
    [][/\ \A id \in DOMAIN dbOrders \ DOMAIN dbOrders' :
             /\ lastOp'.op = "delete"
             /\ lastOp'.id = id
             /\ lastOp'.auth = "verified"
             /\ lastOp'.credential = PasswordOf(lastOp'.client)
       /\ (nops' # nops /\ lastOp'.op = "delete" /\ lastOp'.auth = "failed")
             => /\ dbOrders' = dbOrders
                /\ isDeleteModalOpen' = isDeleteModalOpen
                /\ isDeleteModalOpen'[lastOp'.client]
                /\ selectedOrder' = selectedOrder]_vars

\* C16 witness: a delete with a wrong password was refused: the order is
\* still stored, the dialog is open and the order is still selected.
DeleteRefused ==
    /\ lastOp.op = "delete"
    /\ lastOp.credential = "wrong"
    /\ lastOp.auth = "failed"
    /\ lastOp.id \in DOMAIN dbOrders
    /\ isDeleteModalOpen[lastOp.client]
    /\ IsSome(selectedOrder[lastOp.client])
    /\ Get(selectedOrder[lastOp.client]).id = lastOp.id

\* C17: a revert called with a wrong password makes no remote write: the
\* stored row (status and history) is as it was before the call.
RevertVerifiesCredential ==
    (lastOp.op = "revert" /\ lastOp.credential # PasswordOf(lastOp.client))
    => /\ ~lastOp.wrote
       /\ IsSome(lastOp.pre) => dbOrders[lastOp.id] = Get(lastOp.pre)

\* C18: after a mutating action that succeeded (save, advance, revert,
\* payment, delete) the global activity log holds a record of it.
MutationsAreLogged ==
    (/\ lastOp.op \in {"save", "advance", "revert", "payment", "delete"}
     /\ Succeeded
     /\ lastOp.wrote)
    => /\ activityLog # <<>>
       /\ activityLog[Len(activityLog)][3] = lastOp.client

\* C19: a failing activity-log write blocks neither sign-in nor sign-out:
\* when the log insert of a login failed or threw, the session is
\* established and the login page shows no error; when the log write of a
\* logout failed and signOut returned, currentUser is cleared.
LogFailureNeverBlocks ==
    \A c \in Clients :
        /\ (login[c].pc = "idle" /\ login[c].log \in {"error", "throws"})
              => session[c] /\ login[c].error = ""
        /\ (/\ lastOp.op = "logout" /\ lastOp.client = c
            /\ ~lastOp.wrote /\ lastOp.outcome = "success"
            /\ login[c] = LoginIdle)
              => currentUser[c] = None

\* C20: no exception escapes a handler: every remote call of the handlers,
\* of the debounced search callback and of handleLogin is inside a try.
NothingThrownUncaught ==
    \A c \in Clients : ~uncaught[c]

\* the stored text is valid JSON of shape {timestamp, data}
OfCacheShape(stored) ==
    /\ stored # None
    /\ JsonParse(Get(stored)).valid
    /\ JsonParse(Get(stored)).kind = "object"
    /\ JsonParse(Get(stored)).has = {"timestamp", "data"}

\* C21: no read of the cache throws, and loadFromCache gives null when the
\* key is absent or its text is not valid JSON of shape {timestamp, data}.
CacheReadFallsBack ==
    /\ ~loaded.threw
    /\ (loaded.key = "CurrentUser" /\ ~OfCacheShape(loaded.stored))
          => loaded.value = "null"

\* C22: while the backend client is null nothing is written remotely, and a
\* handler invocation changes neither the in-memory orders, nor the search
\* results, nor the selection, nor a dialog.
ReadOnlyWithoutClient ==
    [][~supabase =>
          /\ dbOrders' = dbOrders
          /\ dbPayments' = dbPayments
          /\ activityLog' = activityLog
          /\ nops' # nops =>
                /\ ~lastOp'.wrote
                /\ orders' = orders
                /\ searchResults' = searchResults
                /\ selectedOrder' = selectedOrder
                /\ isDeleteModalOpen' = isDeleteModalOpen
                /\ payment' = payment]_vars

\* C22 witness: without a client, a delete was confirmed in the open dialog
\* on a loaded order and returned at once; the order is still stored.
DeleteReturnedWithoutClient ==
    /\ ~supabase
    /\ lastOp.op = "delete"
    /\ lastOp.outcome = "returned"
    /\ isDeleteModalOpen[lastOp.client]
    /\ IsSome(selectedOrder[lastOp.client])
    /\ Get(selectedOrder[lastOp.client]).id \in DOMAIN dbOrders

IsPrefix(s, t) == Len(s) <= Len(t) /\ SubSeq(t, 1, Len(s)) = s

\* the last status write was made from a snapshot that another editor's
\* write had meanwhile overtaken: both started from the same stored row
OvertakenByOtherEditor ==
    /\ lastOp.op \in {"advance", "revert"}
    /\ Succeeded
    /\ lastOp.wrote
    /\ IsSome(lastOp.read)
    /\ IsSome(lastOp.pre)
    /\ LET mine   == Get(lastOp.read).history
           stored == Get(lastOp.pre).history
       IN  /\ IsPrefix(mine, stored)
           /\ Len(mine) < Len(stored)
           /\ stored[Len(mine) + 1].user # Username(lastOp.client)

\* C24: when two editors change the same order from the same stored row,
\* after both writes the stored history holds the entries of both and the
\* status is the one of the later write.
ConcurrentEditsKept ==
    OvertakenByOtherEditor
    => LET row == dbOrders[lastOp.id]
       IN  /\ IsPrefix(Get(lastOp.pre).history, row.history)
           /\ Len(row.history) = Len(Get(lastOp.pre).history) + 1
           /\ row.history[Len(row.history)].user = Username(lastOp.client)
           /\ row.status = lastOp.arg

\* what the claim takes a prior total to be: the number it holds, and 0 when
\* it is missing or not numeric
PriorTotal(v) ==
    CASE v.type = "number" -> v.num
      [] v.type = "string" /\ v.rest = "" -> NumericValue(v.digits)
      [] OTHER -> 0

\* C25: a successful registerPayment inserts exactly one ledger record with
\* the amount and leaves the order with amount_paid = prior + amount,
\* transaction_fee = prior + fee, local_delivery_cost = deliveryCost and one
\* more history entry, a missing or non-numeric prior total counting as 0.
\* The prior totals and history are those of the order the dialog is open on.
PaymentEffect ==
    [][\A c \in Editors :
          (payment[c].pc = "inserted" /\ lastOp'.op = "payment"
           /\ lastOp'.client = c /\ lastOp'.outcome = "success")
          => LET sel     == payment[c].sel
                 details == payment[c].details
                 row     == dbOrders'[sel.id]
             IN  /\ Len(dbPayments') = payment[c].ledger + 1
                 /\ dbPayments'[Len(dbPayments')].amount = details.amountPaid
                 /\ dbPayments'[Len(dbPayments')].order_id = sel.id
                 /\ row.amount_paid = PriorTotal(sel.amountPaid) + details.amountPaid
                 /\ row.transaction_fee =
                       PriorTotal(sel.transactionFee) + details.transactionFee
                 /\ row.local_delivery_cost = details.localDeliveryCost
                 /\ Len(row.history) = Len(sel.history) + 1
                 /\ SubSeq(row.history, 1, Len(sel.history)) = sel.history
                 /\ row.status = dbOrders[sel.id].status]_vars

\* a payment of 2 with fee 1 was registered on an order whose amountPaid was
\* missing and whose transactionFee was text
PaymentOnMissingTotals ==
    /\ lastOp.op = "payment"
    /\ lastOp.outcome = "success"
    /\ lastOp.arg = "2"
    /\ Get(lastOp.read).amountPaid = JsUndefined
    /\ Get(lastOp.read).transactionFee = JsString(<<>>, "abc")
    /\ dbOrders[lastOp.id].amount_paid = 2
    /\ dbOrders[lastOp.id].transaction_fee = 1
    /\ Len(dbPayments) = 1

\* C26: an advance to any of the seven statuses is accepted whatever status
\* the order has: when the remote write goes through, the handler reports
\* success, the stored status is the target and the stored history is the
\* history the handler read plus the entry "Status changed to <target>".
AdvanceAcceptsAnyTarget ==
    (lastOp.op = "advance" /\ lastOp.arg \in StatusSet /\ lastOp.wrote
     /\ IsSome(lastOp.pre))
    => LET row == dbOrders[lastOp.id]
       IN  /\ lastOp.outcome = "success"
           /\ row.status = lastOp.arg
           /\ row.history =
                Append(HistoryOf(lastOp.read),
                       Entry(<<"Status changed to ", lastOp.arg>>,
                             Username(lastOp.client)))

\* an order read as COMPLETED was advanced to NEW
AdvancedBackToNew ==
    /\ lastOp.op = "advance" /\ lastOp.outcome = "success"
    /\ IsSome(lastOp.read)
    /\ Get(lastOp.read).status = "COMPLETED"
    /\ Get(lastOp.pre).status = "COMPLETED"
    /\ lastOp.arg = "NEW"
    /\ dbOrders[lastOp.id].status = "NEW"

\* C27: at most one debounce timer is pending, and it is the timer of the
\* latest term; while the term is empty or blank none is pending; and every
\* query issued belongs to a term that was not replaced less than 600 ms
\* after it was typed.
SingleDebounceTimer ==
    \A c \in Clients :
        /\ Cardinality(timers[c]) <= 1
        /\ \A t \in timers[c] :
              t.id = Len(typed[c]) /\ t.term = externalSearchTerm[c]
        /\ Trim(externalSearchTerm[c]) = "" => timers[c] = {}
        /\ \A i \in 1..Len(issued[c]) :
              LET k == issued[c][i].id
              IN  /\ issued[c][i].term = typed[c][k].term
                  /\ k < Len(typed[c]) => ~typed[c][k + 1].quick

\* "a" was replaced by a blank term within the delay, the delay has passed
\* since, and there is neither a timer nor a query
BlankTermCancelled ==
    \E c \in Clients :
        /\ TypedTerms(c) = <<"a", " ">>
        /\ typed[c][2].quick
        /\ sinceKey[c] = DebounceMs
        /\ timers[c] = {}
        /\ issued[c] = <<>>

\* the columns the last operation may have written
WrittenColumns ==
    CASE lastOp.op = "advance" ->
            IF lastOp.arg = "Updated" THEN {"local_delivery_cost", "history"}
            ELSE {"status", "history"}
      [] lastOp.op = "revert" -> {"status", "history"}
      [] lastOp.op = "payment" -> DOMAIN dbOrders[lastOp.id] \ {"status"}

\* C28: an advance leaves every column outside its payload and history as it
\* was, a revert every column but status and history (so neither touches
\* amount_paid or transaction_fee), and a payment registration leaves the
\* status as it was.
StatusOperationsFrame ==
    (lastOp.op \in {"advance", "revert", "payment"} /\ lastOp.wrote
     /\ IsSome(lastOp.pre))
    => \A column \in DOMAIN dbOrders[lastOp.id] \ WrittenColumns :
          dbOrders[lastOp.id][column] = Get(lastOp.pre)[column]

\* an order with a registered payment was reverted: the status changed, the
\* amount paid stayed
RevertedAfterPayment ==
    /\ lastOp.op = "revert" /\ lastOp.outcome = "true"
    /\ Get(lastOp.pre).amount_paid > 0
    /\ dbOrders[lastOp.id].amount_paid = Get(lastOp.pre).amount_paid
    /\ dbOrders[lastOp.id].status # Get(lastOp.pre).status

\* the handlers that write remotely, as lastOp names them
MutatingOps ==
    {"save", "advance", "paymentInsert", "payment", "notification",
     "invoiceSent", "revert", "delete"}

\* C29: a mutating handler whose remote write did not go through ends in
\* its error path: it reports no success and shows no success message.
SuccessOnlyAfterWrite ==
    (lastOp.op \in MutatingOps /\ ~lastOp.wrote)
    => /\ ~Succeeded
       /\ toast[lastOp.client] # "success"

\* the last status operation was on an order that the handler did not find
\* in the paginated collection: it was on display from the search results
OnSearchResultOnly ==
    /\ lastOp.op \in {"advance", "revert"}
    /\ lastOp.outcome # "returned"
    /\ IsSome(lastOp.pre)
    /\ lastOp.read = None

\* C30: on an order displayed from the search results only, a revert goes
\* for the status before the stored one and an advance that is written keeps
\* the stored history and adds its entry to it.
StatusOperationsOnSearchResults ==
    OnSearchResultOnly
    => LET pre == Get(lastOp.pre)
           row == dbOrders[lastOp.id]
       IN  /\ (lastOp.op = "revert" /\ pre.status # "NEW")
                => /\ lastOp.arg = PrevStatus(pre.status)
                   /\ lastOp.wrote => row.status = PrevStatus(pre.status)
           /\ (lastOp.op = "advance" /\ lastOp.wrote)
                => /\ IsPrefix(pre.history, row.history)
                   /\ Len(row.history) = Len(pre.history) + 1

\* C31: isSearching is true whenever a debounce timer is pending or a search
\* is in flight.
SearchingWhileBusy ==
    \A c \in Clients :
        (timers[c] # {} \/ inflight[c] # {}) => isSearching[c]

\* how often x occurs in list
RECURSIVE Occurrences(_, _)
Occurrences(x, list) ==
    IF list = <<>> THEN 0
    ELSE (IF Head(list) = x THEN 1 ELSE 0) + Occurrences(x, Tail(list))

\* the predicate a smart filter stands for
MatchesFilter(o, filter) ==
    CASE filter = "ready_pickup" -> o.status \in {"STORED", "ARRIVED_AT_OFFICE"}
      [] filter = "late" ->
            /\ o.status \in {"ORDERED", "SHIPPED_FROM_STORE"}
            /\ o.expectedArrivalDate \in {<<0, 1>>}
      [] filter = "needs_tracking" -> o.status = "ORDERED" /\ o.trackingNumber = ""
      [] filter = "pending_invoice" -> o.status = "ORDERED" /\ ~o.isInvoicePrinted
      [] OTHER -> o.status = filter

\* C32: the list rendered holds exactly the listed orders that pass the
\* store filter (when one is set) and, while the search term is empty and a
\* smart filter other than "all" is active, match that filter: its named
\* predicate, or status = filter for any other value. With a search term no
\* smart filter applies.
SmartFilterOnlyWithoutTerm ==
    [][/\ \A j \in 1..Len(filteredOrders') :
             \E i \in 1..Len(listed') : filteredOrders'[j] = listed'[i]
       /\ \A i \in 1..Len(listed'), c \in Editors :
             LET o == listed'[i]
             IN  Occurrences(o, filteredOrders') =
                    IF /\ (externalSearchTerm'[c] = ""
                           /\ externalSmartFilter' # "all")
                             => MatchesFilter(o, externalSmartFilter')
                       /\ externalStoreFilter' # "all"
                             => o.storeId = externalStoreFilter'
                    THEN Occurrences(o, listed')
                    ELSE 0]_vars

\* with the term "a" and the pill "late" active, an order that is not late
\* and belongs to the selected store is on display
NotLateShownWithTerm ==
    \E c \in Editors :
        /\ externalSearchTerm[c] = "a"
        /\ externalSmartFilter = "late"
        /\ externalStoreFilter = "s1"
        /\ Len(filteredOrders) = 1
        /\ filteredOrders[1].status = "STORED"
        /\ filteredOrders[1].storeId = "s1"

\* C33: with an empty search term and no store selected, the count on the
\* active pill is the number of orders on display.
PillCountIsDisplayed ==
    [][\A c \in Editors :
          (/\ externalSearchTerm'[c] = ""
           /\ externalStoreFilter' = "all"
           /\ externalSmartFilter' \in CountPills)
          => PillCount(externalSmartFilter', listed') = Len(filteredOrders')]_vars

\* C34: the banner is hidden exactly when the client is online with nothing
\* pending; offline it shows the offline message whatever is pending; online
\* with writes pending it shows the syncing message with their number.
BannerFollowsSyncState ==
    LET banner == OfflineBanner(isOnline, pendingCount)
    IN  /\ ~banner.shown <=> (isOnline /\ pendingCount = 0)
        /\ ~isOnline => banner.shown /\ banner.message = "offline"
        /\ (isOnline /\ pendingCount > 0)
              => /\ banner.shown
                 /\ banner.message = "syncing"
                 /\ banner.count = pendingCount

\* online again after an advance, with two writes still pending
SyncingAfterAdvance ==
    /\ isOnline
    /\ pendingCount = 2
    /\ lastOp.op = "advance"
    /\ OfflineBanner(isOnline, pendingCount).message = "syncing"

\* C35: once checkAuth has run, currentUser is null exactly when the cache
\* holds no CurrentUser entry.
SessionAgreesWithCache ==
    \A c \in Editors :
        (authCheck[c].ran /\ authCheck[c].pc = "idle")
        => (currentUser[c] = None <=> localStorage["CurrentUser"] = None)

\* C36: from a sign-out event to the next SIGNED_IN, currentUser is null
\* and the cache holds no CurrentUser entry, whatever checkAuth was under way.
SignedOutStaysSignedOut ==
    \A c \in Editors :
        authCheck[c].signedOut
        => currentUser[c] = None /\ localStorage["CurrentUser"] = None

\* C37: signInWithPassword is called only with an input in e-mail format or
\* with the address a Users lookup gave; in particular not after a lookup
\* that found no user and not with the setup credentials.
SignInOnlyWithEmail ==
    \A c \in Editors :
        login[c].pc = "signIn"
        => \/ IsEmailFormat(login[c].input)
           \/ login[c].targetEmail = "resolved"

\* the login form is usable again: loading is false and an error message
\* is set or the setup dialog is open
LoginFormReleased(c) ==
    /\ ~login[c].loading
    /\ login[c].error # "" \/ login[c].isDbSetupOpen

\* C38: a login attempt that does not end signed in eventually resets
\* loading to false, with an error message set or the setup dialog open.
LoadingEventuallyReset ==
    \A c \in Editors :
        login[c].loading ~> (currentUser[c] # None \/ LoginFormReleased(c))
====
